---- MODULE Spec2Model ----
(***************************************************************************)
(* Model of the WhatsApp -> Agentforce bridge                              *)
(* (src/whatsapp-agentforce-handler/main.py).                              *)
(*                                                                         *)
(* Part 1: the message chunker of send_whatsapp_message (SpecChunk).       *)
(* Part 2: the session cache, the token cache and the sequence counter     *)
(*         (SpecAgent).                                                    *)
(* Part 3: one webhook request with its pre-warm and voice threads         *)
(*         (SpecHandler).                                                  *)
(*                                                                         *)
(* A string is a sequence of runs.  A run is a record                      *)
(*   [k |-> kind, id |-> i, off |-> o, n |-> length]                       *)
(* with kind "w" (n letters, the characters o+1..o+n of the input's        *)
(* letter run number i), "dot" ('.'), "bang" ('!'), "sp" (n spaces) or     *)
(* "nl" (one newline).  Lengths are the real character counts, so the      *)
(* limits of the code (1600, 25) are used unscaled.                        *)
(***************************************************************************)
EXTENDS Integers, Sequences, FiniteSets, TLC

VARIABLES
    message_text,   \* chunker: the text handed to send_whatsapp_message
    to_send,        \* chunker: bodies computed and not yet handed to Twilio
    outbox,         \* chunker: bodies handed to _send_single_whatsapp_message
    cpc,            \* chunker: "start" | "sending" | "done" | "raised"
    now,            \* agent: datetime.now(), in seconds
    sessions,       \* agent: the sessions dict, sender -> record or NoSession
    token_cache,    \* agent: the token_cache dict
    issued,         \* agent: ids the upstream services have handed out so far
    ticks,          \* agent: clock steps taken (bounded)
    calls,          \* agent: calls made (bounded)
    last_call,      \* agent: what the last completed call saw and did
    last_grant,     \* agent: the last successful grant exchange
    seq_log,        \* agent: the sequence ids taken by send_to_agentforce
    req_kind,       \* webhook: "none" | "get" | "bad_form" | "text" | "voice"
    hpc,            \* webhook: the request thread's position
    lang,           \* webhook: detected_language, "en" | "ar" | "unknown"
    prewarm,        \* webhook: session_future, "none" | "pending" | "ok" | "failed"
    reply_chunks,   \* webhook: number of bodies the agent's reply is sent in
    chunk_i,        \* webhook: bodies of the reply handed to Twilio so far
    bg,             \* webhook: voice_thread's position
    events,         \* webhook: the outbound calls made, in order
    response,       \* webhook: the HTTP response of the request
    a_store,        \* audio: which service, "none" | "main" | "app"
    api_key,        \* audio: app.py's API_KEY, NONE when not configured
    a_now,          \* audio: the clock, in seconds
    audio_cache,    \* audio: the audio_cache dict, id -> record or NoAudio
    a_next,         \* audio: ids generated so far
    a_log,          \* audio: what was stored under each id, and when
    a_last,         \* audio: what the last request saw and did
    a_steps,        \* audio: requests and clock steps made (bounded)
    d_impl,         \* download: "none" | "main" | "main_elevenlabs"
    d_pc,           \* download: "idle" | "try" | "returned" | "raised"
    d_attempt,      \* download: the loop variable of download_twilio_media
    d_seen,         \* download: the answers to the GETs made so far
    d_value,        \* download: the value returned
    d_waits,        \* download: the sleeps made, in milliseconds
    p_in,           \* functions: the argument of the function applied
    p_out,          \* functions: its result, NoResult before it is applied
    th,             \* threads: each thread's position and local variables
    wire            \* threads: the requests the threads have made, in order

chunkVars == <<message_text, to_send, outbox, cpc>>

agentVars == <<now, sessions, token_cache, issued, ticks, calls, last_call,
               last_grant, seq_log>>

handlerVars == <<req_kind, hpc, lang, prewarm, reply_chunks, chunk_i, bg, events,
                 response>>

audioVars == <<a_store, api_key, a_now, audio_cache, a_next, a_log, a_last,
               a_steps>>

downloadVars == <<d_impl, d_pc, d_attempt, d_seen, d_value, d_waits>>

raceVars == <<th, wire>>

pureVars == <<p_in, p_out>>

auxVars == <<audioVars, downloadVars, raceVars, pureVars>>

vars == <<chunkVars, agentVars, handlerVars, auxVars>>

-----------------------------------------------------------------------------
(* Bounds of the inputs *)

MaxPieces == 5

MaxTicks == 2

MaxCalls == 3

MaxReplyChunks == 2

MaxUploads == 2

MaxAudioSteps == 5

-----------------------------------------------------------------------------
(* Program constants *)

MAX_MESSAGE_LENGTH == 1600

INDICATOR_RESERVE == 25

CHUNK_SIZE == MAX_MESSAGE_LENGTH - INDICATOR_RESERVE

SESSION_TIMEOUT_MINUTES == 30

TOKEN_EXPIRY_BUFFER == 300

DEFAULT_EXPIRES_IN == 7200

-----------------------------------------------------------------------------
(* Python string primitives on run sequences *)

Max(a, b) == IF a >= b THEN a ELSE b

Run(kind, i, o, len) == [k |-> kind, id |-> i, off |-> o, n |-> len]

SPACE == Run("sp", 0, 0, 1)

NEWLINE == Run("nl", 0, 0, 1)

PERIOD == Run("dot", 0, 0, 1)

\* len(s)
RECURSIVE StrLen(_)
StrLen(s) == IF s = <<>> THEN 0 ELSE Head(s).n + StrLen(Tail(s))

\* str.isspace for one run
IsSpace(t) == t.k \in {"sp", "nl"}

RECURSIVE LStrip(_)
LStrip(s) == IF s # <<>> /\ IsSpace(Head(s)) THEN LStrip(Tail(s)) ELSE s

RECURSIVE RStrip(_)
RStrip(s) ==
    IF s # <<>> /\ IsSpace(s[Len(s)]) THEN RStrip(SubSeq(s, 1, Len(s) - 1)) ELSE s

\* s.strip()
Strip(s) == RStrip(LStrip(s))

\* the first k characters of s, k >= 0
RECURSIVE Prefix(_, _)
Prefix(s, k) ==
    IF k <= 0 \/ s = <<>> THEN <<>>
    ELSE IF Head(s).n <= k
         THEN <<Head(s)>> \o Prefix(Tail(s), k - Head(s).n)
         ELSE <<[Head(s) EXCEPT !.n = k]>>

\* s[:k]; a negative k counts from the end, as Python slices do
SliceTo(s, k) == IF k >= 0 THEN Prefix(s, k) ELSE Prefix(s, Max(0, StrLen(s) + k))

\* s.split('\n\n'): cut at each non-overlapping pair of newlines, left to right
RECURSIVE SplitParagraphs(_, _)
SplitParagraphs(s, cur) ==
    IF s = <<>> THEN <<cur>>
    ELSE IF Len(s) >= 2 /\ s[1].k = "nl" /\ s[2].k = "nl"
         THEN <<cur>> \o SplitParagraphs(SubSeq(s, 3, Len(s)), <<>>)
         ELSE SplitParagraphs(Tail(s), Append(cur, Head(s)))

\* s.split('. '): cut at each period followed by a space; the separator takes
\* one space of a longer run of spaces
RECURSIVE SplitSentences(_, _)
SplitSentences(s, cur) ==
    IF s = <<>> THEN <<cur>>
    ELSE IF Len(s) >= 2 /\ s[1].k = "dot" /\ s[2].k = "sp"
         THEN LET after == SubSeq(s, 3, Len(s))
                  rest == IF s[2].n > 1
                          THEN <<[s[2] EXCEPT !.n = @ - 1]>> \o after
                          ELSE after
              IN <<cur>> \o SplitSentences(rest, <<>>)
         ELSE SplitSentences(Tail(s), Append(cur, Head(s)))

\* s.split(): the maximal runs of non-whitespace characters
RECURSIVE SplitWords(_, _)
SplitWords(s, cur) ==
    LET flush == IF cur = <<>> THEN <<>> ELSE <<cur>> IN
    IF s = <<>> THEN flush
    ELSE IF IsSpace(Head(s))
         THEN flush \o SplitWords(Tail(s), <<>>)
         ELSE SplitWords(Tail(s), Append(cur, Head(s)))

\* number of decimal digits of a positive integer, len(str(i))
RECURSIVE Digits(_)
Digits(i) == IF i < 10 THEN 1 ELSE 1 + Digits(i \div 10)

\* len(f"[{i}/{total}]\n\n")
IndicatorLen(i, total) == 1 + Digits(i) + 1 + Digits(total) + 1 + 2

-----------------------------------------------------------------------------
(* send_whatsapp_message: splitting *)

\* a helper that forgets the chunk it is given
add_chunk_dropped(chunks_list, current_chunk_str) == chunks_list

\* add_chunk_if_needed: the new chunks list (the caller resets current_chunk)
add_chunk_if_needed(chunks_list, current_chunk_str) ==
    IF current_chunk_str # <<>>
    THEN LET trimmed == Strip(current_chunk_str) IN
         Append(chunks_list,
                IF StrLen(trimmed) > CHUNK_SIZE
                THEN SliceTo(trimmed, CHUNK_SIZE)
                ELSE trimmed)
    ELSE chunks_list

\* for word in words: ...
RECURSIVE WordLoop(_, _)
WordLoop(words, st) ==
    IF words = <<>> THEN st
    ELSE LET word == Head(words)
             potential_chunk ==
                 IF st.cur # <<>> THEN st.cur \o <<SPACE>> \o word ELSE word
         IN WordLoop(Tail(words),
                IF StrLen(potential_chunk) > CHUNK_SIZE
                THEN [chunks |-> add_chunk_if_needed(st.chunks, st.cur),
                      cur |-> word]
                ELSE [chunks |-> st.chunks, cur |-> potential_chunk])

\* for sentence in sentences: ...
RECURSIVE SentenceLoop(_, _)
SentenceLoop(sentences, st) ==
    IF sentences = <<>> THEN st
    ELSE LET stripped == Strip(Head(sentences)) IN
         IF stripped = <<>> THEN SentenceLoop(Tail(sentences), st)
         ELSE
         LET sentence ==
                 IF stripped[Len(stripped)].k \in {"dot", "bang"}
                 THEN stripped
                 ELSE Append(stripped, PERIOD)
             potential_chunk ==
                 IF st.cur # <<>> THEN st.cur \o <<SPACE>> \o sentence ELSE sentence
             flushed == [chunks |-> add_chunk_if_needed(st.chunks, st.cur),
                         cur |-> <<>>]
         IN SentenceLoop(Tail(sentences),
                IF StrLen(potential_chunk) > CHUNK_SIZE
                THEN IF StrLen(sentence) > CHUNK_SIZE
                     THEN WordLoop(SplitWords(sentence, <<>>), flushed)
                     ELSE [flushed EXCEPT !.cur = sentence]
                ELSE [chunks |-> st.chunks, cur |-> potential_chunk])

\* for paragraph in paragraphs: ...
RECURSIVE ParagraphLoop(_, _)
ParagraphLoop(paragraphs, st) ==
    IF paragraphs = <<>> THEN st
    ELSE LET paragraph == Strip(Head(paragraphs)) IN
         IF paragraph = <<>> THEN ParagraphLoop(Tail(paragraphs), st)
         ELSE
         LET potential_chunk ==
                 IF st.cur # <<>>
                 THEN st.cur \o <<NEWLINE, NEWLINE>> \o paragraph
                 ELSE paragraph
             flushed == [chunks |-> add_chunk_if_needed(st.chunks, st.cur),
                         cur |-> <<>>]
         IN ParagraphLoop(Tail(paragraphs),
                IF StrLen(potential_chunk) > CHUNK_SIZE
                THEN IF StrLen(paragraph) > CHUNK_SIZE
                     THEN SentenceLoop(SplitSentences(paragraph, <<>>), flushed)
                     ELSE [flushed EXCEPT !.cur = paragraph]
                ELSE [chunks |-> st.chunks, cur |-> potential_chunk])

\* the chunks list before sending: the loops, the last chunk, the filter of
\* empty chunks and the truncating fallback
SplitIntoChunks(text) ==
    LET st == ParagraphLoop(SplitParagraphs(text, <<>>),
                            [chunks |-> <<>>, cur |-> <<>>])
        all == add_chunk_if_needed(st.chunks, st.cur)
        kept == SelectSeq(all, LAMBDA c : Strip(c) # <<>>)
    IN IF kept = <<>> THEN <<SliceTo(text, MAX_MESSAGE_LENGTH)>> ELSE kept

\* a message body: the text, preceded by "[i/total]\n\n" when total > 0;
\* ind is the number of characters of the indicator that are part of the body
Body(i, total, ind, txt) == [i |-> i, total |-> total, ind |-> ind, txt |-> txt]

BodyLen(b) == b.ind + StrLen(b.txt)

\* the body sent for chunk number i of total_chunks
ChunkBody(chunk0, i, total_chunks) ==
    LET chunk == IF StrLen(chunk0) > CHUNK_SIZE
                 THEN SliceTo(chunk0, CHUNK_SIZE) ELSE chunk0
    IN IF total_chunks > 1
       THEN LET indicator == IndicatorLen(i, total_chunks) IN
            IF indicator + StrLen(chunk) > MAX_MESSAGE_LENGTH
            THEN LET available_space == MAX_MESSAGE_LENGTH - indicator
                     cut == SliceTo(chunk, available_space)
                 IN IF indicator + StrLen(cut) > MAX_MESSAGE_LENGTH
                    THEN Body(i, total_chunks, MAX_MESSAGE_LENGTH,
                              SliceTo(cut, MAX_MESSAGE_LENGTH - indicator))
                    ELSE Body(i, total_chunks, indicator, cut)
            ELSE Body(i, total_chunks, indicator, chunk)
       ELSE Body(0, 0, 0, IF StrLen(chunk) > MAX_MESSAGE_LENGTH
                          THEN SliceTo(chunk, MAX_MESSAGE_LENGTH) ELSE chunk)

\* main_elevenlabs.py's send_whatsapp_message: the text is sent as it is
BodiesUnsplit(text) == <<Body(0, 0, 0, text)>>

\* a direct send that trims the text first
BodiesTrimmedWhenShort(text) ==
    IF StrLen(text) <= MAX_MESSAGE_LENGTH
    THEN <<Body(0, 0, 0, Strip(text))>>
    ELSE LET chunks == SplitIntoChunks(text) IN
         [i \in 1..Len(chunks) |-> ChunkBody(chunks[i], i, Len(chunks))]

\* the bodies send_whatsapp_message hands to _send_single_whatsapp_message,
\* in order
BodiesToSend(text) ==
    IF StrLen(text) <= MAX_MESSAGE_LENGTH
    THEN <<Body(0, 0, 0, text)>>
    ELSE LET chunks == SplitIntoChunks(text) IN
         [i \in 1..Len(chunks) |-> ChunkBody(chunks[i], i, Len(chunks))]

-----------------------------------------------------------------------------
(* Part 2: the session cache, the token cache and the sequence counter.    *)
(* Calls are made one after the other; the clock moves between calls.      *)
(* The dicts are keyed by sender; the entry of one sender is followed.     *)

NONE == -1

\* a sender that is no key of the sessions dict
NoSession == [session_id |-> NONE, created_at |-> NONE, sequence_id |-> NONE]

\* no grant exchange
NoGrant == [at |-> NONE, token |-> NONE, expires_in |-> NONE]

Senders == {"+1"}

\* steps of the clock, chosen to land just before and on the expiry instants
ClockSteps == {1, 1799, 6899}

\* what the token endpoint may answer: an error status, or 200 with an
\* access_token and a declared lifetime (NONE: the field is absent)
TokenResponses ==
    {[status |-> "error", expires_in |-> NONE]}
    \cup {[status |-> "ok", expires_in |-> e] : e \in {NONE, 300}}

\* what the session-creation endpoint may answer
SessionResponses == {"ok", "error", "no_session_id"}

\* what the message endpoint may answer: 200, 204, or another status
MessageResponses == {"ok", "no_content", "error"}

\* what the GET of the session's messages may come to after a 204: a last
\* message with a text, a last message without one, no messages, a status
\* other than 200, an exception
PollResponses == {"text", "empty_text", "no_messages", "non_200", "exception"}

\* timedelta(minutes=m) in seconds
Minutes(m) == m * 60

\* a window that is closed at its end
SessionValidStale(session_data, t) ==
    t - session_data.created_at <= Minutes(SESSION_TIMEOUT_MINUTES)

\* line 638: the cached session is still valid
SessionValid(session_data, t) ==
    t - session_data.created_at < Minutes(SESSION_TIMEOUT_MINUTES)

\* an expiry instant without the safety buffer
TokenExpiryNoBuffer(t, expires_in) == t + expires_in

\* line 869: the expiry instant computed for a new token
TokenExpiry(t, expires_in) == t + (expires_in - TOKEN_EXPIRY_BUFFER)

\* lines 834-835: the cached token is used
TokenCached(tc, t) ==
    /\ tc.token # NONE
    /\ tc.expires_at # NONE
    /\ t < tc.expires_at

\* get_salesforce_token: the result, the cache afterwards, the number of
\* requests made to the token endpoint, and the grant obtained (or NONE)
get_salesforce_token(tc, t, resp, fresh) ==
    IF TokenCached(tc, t)
    THEN [result |-> "return", value |-> tc.token, cache |-> tc, posts |-> 0,
          grant |-> NoGrant]
    ELSE IF resp.status # "ok"
    THEN [result |-> "raise", value |-> NONE, cache |-> tc, posts |-> 1,
          grant |-> NoGrant]
    ELSE LET expires_in == IF resp.expires_in = NONE
                           THEN DEFAULT_EXPIRES_IN ELSE resp.expires_in
         IN [result |-> "return", value |-> fresh,
             cache |-> [token |-> fresh, expires_at |-> TokenExpiry(t, expires_in)],
             posts |-> 1,
             grant |-> [at |-> t, token |-> fresh, expires_in |-> expires_in]]

\* a new session that carries the old counter on
NewSessionKeepCounter(old, session_id, t) ==
    [session_id |-> session_id, created_at |-> t,
     sequence_id |-> IF old = NoSession THEN 0 ELSE old.sequence_id]

\* lines 688-692: the record stored for a new session
NewSession(old, session_id, t) ==
    [session_id |-> session_id, created_at |-> t, sequence_id |-> 0]

\* an answer is taken for a new session whenever its status is a success
SessionCreatedAnyBody(sresp) == sresp # "error"

\* lines 669-685: the answer has status 200 or 201 and holds a sessionId
SessionCreated(sresp) == sresp = "ok"

\* get_agentforce_session: the result, both caches afterwards, the requests
\* made to the token and session-creation endpoints
get_agentforce_session(ss, tc, from_number, t, tresp, sresp, fresh) ==
    IF ss[from_number] # NoSession /\ SessionValid(ss[from_number], t)
    THEN [result |-> "return", value |-> ss[from_number].session_id,
          sessions |-> ss, cache |-> tc, token_posts |-> 0, session_posts |-> 0,
          token_ok |-> FALSE, grant |-> NoGrant]
    ELSE LET tok == get_salesforce_token(tc, t, tresp, fresh) IN
         IF tok.result = "raise"
         THEN [result |-> "raise", value |-> NONE, sessions |-> ss,
               cache |-> tok.cache, token_posts |-> tok.posts, session_posts |-> 0,
               token_ok |-> FALSE, grant |-> tok.grant]
         ELSE IF ~SessionCreated(sresp)
         THEN [result |-> "raise", value |-> NONE, sessions |-> ss,
               cache |-> tok.cache, token_posts |-> tok.posts, session_posts |-> 1,
               token_ok |-> TRUE, grant |-> tok.grant]
         ELSE [result |-> "return", value |-> fresh + 1,
               sessions |-> [ss EXCEPT ![from_number] =
                                NewSession(ss[from_number], fresh + 1, t)],
               cache |-> tok.cache, token_posts |-> tok.posts, session_posts |-> 1,
               token_ok |-> TRUE, grant |-> tok.grant]

\* lines 704-706: the sequence id taken for the next message
NextSequenceId(session_data) == session_data.sequence_id + 1

\* a poll whose exception is not caught
PollReplyRaising(presp) ==
    CASE presp = "text"      -> [result |-> "return", value |-> "poll_text"]
      [] presp = "exception" -> [result |-> "raise", value |-> "none"]
      [] OTHER               -> [result |-> "return", value |-> "processing"]

\* lines 745-763: what the 204 path returns after its GET
PollReply(presp) ==
    IF presp = "text"
    THEN [result |-> "return", value |-> "poll_text"]
    ELSE [result |-> "return", value |-> "processing"]

\* lines 733-822: what send_to_agentforce makes of the answer to its POST,
\* and the number of GETs it makes
AgentforceReply(mresp, presp) ==
    CASE mresp = "no_content" ->
            [result |-> PollReply(presp).result,
             value |-> PollReply(presp).value, polls |-> 1]
      [] mresp = "ok" -> [result |-> "return", value |-> "reply", polls |-> 0]
      [] OTHER -> [result |-> "raise", value |-> "none", polls |-> 0]

\* send_to_agentforce: the result, the caches afterwards, the sequence id
\* taken, whether it was posted, and what was made of the answer
send_to_agentforce(ss, tc, from_number, t, tresp1, sresp, tresp2, mresp, presp, fresh) ==
    LET s == get_agentforce_session(ss, tc, from_number, t, tresp1, sresp, fresh) IN
    IF s.result = "raise"
    THEN [result |-> "raise", sessions |-> s.sessions, cache |-> s.cache,
          session_id |-> NONE, sequence_id |-> NONE, posted |-> FALSE,
          created |-> FALSE, grant |-> s.grant, value |-> "none", polls |-> 0]
    ELSE LET sequence_id == NextSequenceId(s.sessions[from_number])
             ss2 == [s.sessions EXCEPT ![from_number].sequence_id = sequence_id]
             tok == get_salesforce_token(s.cache, t, tresp2, fresh + 2)
             grant == IF tok.grant # NoGrant THEN tok.grant ELSE s.grant
         IN IF tok.result = "raise"
            THEN [result |-> "raise", sessions |-> ss2, cache |-> tok.cache,
                  session_id |-> s.value, sequence_id |-> sequence_id,
                  posted |-> FALSE, created |-> s.session_posts = 1,
                  grant |-> grant, value |-> "none", polls |-> 0]
            ELSE LET reply == AgentforceReply(mresp, presp) IN
                 [result |-> reply.result,
                  sessions |-> ss2, cache |-> tok.cache,
                  session_id |-> s.value, sequence_id |-> sequence_id,
                  posted |-> TRUE, created |-> s.session_posts = 1,
                  grant |-> grant, value |-> reply.value,
                  polls |-> reply.polls]

AgentIdle ==
    /\ now = 0
    /\ sessions = [s \in Senders |-> NoSession]
    /\ token_cache = [token |-> NONE, expires_at |-> NONE]
    /\ issued = 0
    /\ ticks = 0
    /\ calls = 0
    /\ last_call = [op |-> "none"]
    /\ last_grant = NoGrant
    /\ seq_log = <<>>

HandlerIdle ==
    /\ req_kind = "none"
    /\ hpc = "idle"
    /\ lang = "en"
    /\ prewarm = "none"
    /\ reply_chunks = 0
    /\ chunk_i = 0
    /\ bg = "none"
    /\ events = <<>>
    /\ response = [status |-> 0, body |-> "none", by |-> "none"]

\* an id that is no key of the audio_cache dict
NoAudio == [data |-> NONE, timestamp |-> NONE]

AudioIds == 1..MaxUploads

AudioIdle ==
    /\ a_store = "none"
    /\ api_key = NONE
    /\ a_now = 0
    /\ audio_cache = [i \in AudioIds |-> NoAudio]
    /\ a_next = 0
    /\ a_log = [i \in AudioIds |-> NoAudio]
    /\ a_last = [op |-> "none"]
    /\ a_steps = 0

DownloadIdle ==
    /\ d_impl = "none"
    /\ d_pc = "idle"
    /\ d_attempt = 0
    /\ d_seen = <<>>
    /\ d_value = NONE
    /\ d_waits = <<>>

\* the threads of the concurrent runs
Threads == {1, 2}

\* a thread that has not been started
NoThread == [pc |-> "none"]

RaceIdle ==
    /\ th = [i \in Threads |-> NoThread]
    /\ wire = <<>>

\* no function has been applied
NoResult == [result |-> "none"]

PureIdle ==
    /\ p_in = NoResult
    /\ p_out = NoResult

AuxIdle == AudioIdle /\ DownloadIdle /\ RaceIdle /\ PureIdle

ChunkIdle ==
    /\ message_text = <<>>
    /\ to_send = <<>>
    /\ outbox = <<>>
    /\ cpc = "idle"

AgentInit == AgentIdle /\ ChunkIdle /\ HandlerIdle /\ AuxIdle

\* time passes between two calls
Tick ==
    /\ ticks < MaxTicks
    /\ \E d \in ClockSteps : now' = now + d
    /\ ticks' = ticks + 1
    /\ UNCHANGED <<sessions, token_cache, issued, calls, last_call, last_grant,
                   seq_log, chunkVars, handlerVars, auxVars>>

\* the answers that can matter to a call: an endpoint that is not asked
\* answers nothing
NoTokenResponse == [status |-> "error", expires_in |-> NONE]

TokenAnswers(asked) == IF asked THEN TokenResponses ELSE {NoTokenResponse}

SessionAnswers(asked) == IF asked THEN SessionResponses ELSE {"error"}

PollAnswers(asked) == IF asked THEN PollResponses ELSE {"none"}

MessageAnswers(asked) == IF asked THEN MessageResponses ELSE {"error"}

\* one call of get_salesforce_token
CallGetToken ==
    /\ calls < MaxCalls
    /\ \E resp \in TokenAnswers(~TokenCached(token_cache, now)) :
          LET r == get_salesforce_token(token_cache, now, resp, issued + 1) IN
          /\ token_cache' = r.cache
          /\ last_grant' = IF r.grant # NoGrant THEN r.grant ELSE last_grant
          /\ last_call' = [op |-> "get_token", at |-> now, grant |-> last_grant,
                           result |-> r.result, value |-> r.value,
                           token_posts |-> r.posts]
          /\ issued' = IF r.grant # NoGrant THEN issued + 3 ELSE issued
    /\ calls' = calls + 1
    /\ UNCHANGED <<now, sessions, ticks, seq_log, chunkVars, handlerVars, auxVars>>

\* one call of get_agentforce_session
CallGetSession ==
    /\ calls < MaxCalls
    /\ \E from_number \in Senders :
       LET create == ~(/\ sessions[from_number] # NoSession
                       /\ SessionValid(sessions[from_number], now))
           fetch == create /\ ~TokenCached(token_cache, now)
       IN
       \E tresp \in TokenAnswers(fetch) :
       \E sresp \in SessionAnswers(create /\ (fetch => tresp.status = "ok")) :
          LET r == get_agentforce_session(sessions, token_cache, from_number,
                                          now, tresp, sresp, issued + 1) IN
          /\ sessions' = r.sessions
          /\ token_cache' = r.cache
          /\ last_grant' = IF r.grant # NoGrant THEN r.grant ELSE last_grant
          /\ last_call' = [op |-> "get_session", at |-> now,
                           from_number |-> from_number,
                           before |-> sessions[from_number],
                           result |-> r.result, value |-> r.value,
                           token_posts |-> r.token_posts,
                           token_ok |-> r.token_ok,
                           session_posts |-> r.session_posts,
                           session_answer |->
                               IF r.session_posts = 1 THEN sresp ELSE "none"]
          /\ issued' = IF r.grant # NoGrant \/ r.sessions # sessions
                       THEN issued + 3 ELSE issued
    /\ calls' = calls + 1
    /\ UNCHANGED <<now, ticks, seq_log, chunkVars, handlerVars, auxVars>>

\* one call of send_to_agentforce
CallSendToAgentforce ==
    /\ calls < MaxCalls
    /\ \E from_number \in Senders :
       LET create == ~(/\ sessions[from_number] # NoSession
                       /\ SessionValid(sessions[from_number], now))
           fetch == create /\ ~TokenCached(token_cache, now)
       IN
       \E tresp1 \in TokenAnswers(fetch) :
       \E sresp \in SessionAnswers(create /\ (fetch => tresp1.status = "ok")) :
       LET s == get_agentforce_session(sessions, token_cache, from_number,
                                       now, tresp1, sresp, issued + 1)
           again == s.result = "return" /\ ~TokenCached(s.cache, now)
       IN
       \E tresp2 \in TokenAnswers(again) :
       \E mresp \in MessageAnswers(s.result = "return"
                                   /\ (again => tresp2.status = "ok")) :
       \E presp \in PollAnswers(mresp = "no_content") :
          LET r == send_to_agentforce(sessions, token_cache, from_number, now,
                                      tresp1, sresp, tresp2, mresp, presp,
                                      issued + 1) IN
          /\ sessions' = r.sessions
          /\ token_cache' = r.cache
          /\ last_grant' = IF r.grant # NoGrant THEN r.grant ELSE last_grant
          /\ last_call' = [op |-> "send", at |-> now, from_number |-> from_number,
                           result |-> r.result, created |-> r.created,
                           session_id |-> r.session_id,
                           sequence_id |-> r.sequence_id, posted |-> r.posted,
                           no_content |-> mresp = "no_content",
                           poll_text |-> presp = "text",
                           value |-> r.value, polls |-> r.polls]
          /\ seq_log' = IF r.sequence_id = NONE THEN seq_log
                        ELSE Append(seq_log,
                                    [from_number |-> from_number,
                                     session_id |-> r.session_id,
                                     sequence_id |-> r.sequence_id,
                                     posted |-> r.posted])
          /\ issued' = IF r.grant # NoGrant \/ r.created
                       THEN issued + 3 ELSE issued
    /\ calls' = calls + 1
    /\ UNCHANGED <<now, ticks, chunkVars, handlerVars, auxVars>>

AgentNext == Tick \/ CallGetToken \/ CallGetSession \/ CallSendToAgentforce

SpecAgent == AgentInit /\ [][AgentNext]_vars

-----------------------------------------------------------------------------
(* Inputs of the chunker: texts built from at most MaxPieces pieces *)

PieceKinds ==
    {"w1", "w800", "w1575", "w1601", "dot", "bang", "sp", "sp1601", "nl", "para"}

Piece(kind, i) ==
    CASE kind = "w1"    -> <<Run("w", i, 0, 1)>>
      [] kind = "w800"  -> <<Run("w", i, 0, 800)>>
      [] kind = "w1575" -> <<Run("w", i, 0, 1575)>>
      [] kind = "w1601" -> <<Run("w", i, 0, 1601)>>
      [] kind = "dot"   -> <<PERIOD>>
      [] kind = "bang"  -> <<Run("bang", 0, 0, 1)>>
      [] kind = "sp"    -> <<SPACE>>
      [] kind = "sp1601" -> <<Run("sp", 0, 0, 1601)>>
      [] kind = "nl"    -> <<NEWLINE>>
      [] kind = "para"  -> <<NEWLINE, NEWLINE>>

RECURSIVE TextOf(_, _)
TextOf(kinds, i) ==
    IF i > Len(kinds) THEN <<>> ELSE Piece(kinds[i], i) \o TextOf(kinds, i + 1)

PieceSeqs(n) == [1..n -> PieceKinds]

-----------------------------------------------------------------------------
(* The chunker as a state machine: one call of send_whatsapp_message *)

ChunkInit ==
    /\ AgentIdle
    /\ HandlerIdle
    /\ AuxIdle
    /\ \E n \in 0..MaxPieces : \E p \in PieceSeqs(n) : message_text = TextOf(p, 1)
    /\ to_send = <<>>
    /\ outbox = <<>>
    /\ cpc = "start"

\* lines 881-987: the bodies are computed
ChunkSplit ==
    /\ cpc = "start"
    /\ to_send' = BodiesToSend(message_text)
    /\ cpc' = "sending"
    /\ UNCHANGED <<message_text, outbox, agentVars, handlerVars, auxVars>>

\* _send_single_whatsapp_message accepts the next body
ChunkSendOk ==
    /\ cpc = "sending"
    /\ to_send # <<>>
    /\ outbox' = Append(outbox, Head(to_send))
    /\ to_send' = Tail(to_send)
    /\ cpc' = IF Tail(to_send) = <<>> THEN "done" ELSE "sending"
    /\ UNCHANGED <<message_text, agentVars, handlerVars, auxVars>>

\* Twilio answers with an error status: raise_for_status ends the call
ChunkSendFail ==
    /\ cpc = "sending"
    /\ to_send # <<>>
    /\ outbox' = Append(outbox, Head(to_send))
    /\ cpc' = "raised"
    /\ UNCHANGED <<message_text, to_send, agentVars, handlerVars, auxVars>>

ChunkNext == ChunkSplit \/ ChunkSendOk \/ ChunkSendFail

SpecChunk == ChunkInit /\ [][ChunkNext]_vars

-----------------------------------------------------------------------------
(* Claims about the chunker *)

\* the text of the bodies in send order, indicators stripped, one body per line
RECURSIVE JoinBodies(_)
JoinBodies(bodies) ==
    IF bodies = <<>> THEN <<>>
    ELSE Head(bodies).txt \o <<NEWLINE>> \o JoinBodies(Tail(bodies))

\* adjacent pieces of one letter run, cut apart by a truncation, read as one
RECURSIVE MergeRuns(_)
MergeRuns(w) ==
    IF Len(w) < 2 THEN w
    ELSE LET a == w[1]
             b == w[2]
         IN IF a.k = "w" /\ b.k = "w" /\ a.id = b.id /\ a.off + a.n = b.off
            THEN MergeRuns(<<[a EXCEPT !.n = a.n + b.n]>> \o SubSeq(w, 3, Len(w)))
            ELSE <<a>> \o MergeRuns(Tail(w))

\* the letters of one whitespace-delimited word, punctuation left out
LettersOf(word) == MergeRuns(SelectSeq(word, LAMBDA t : t.k = "w"))

\* the words of a text: the letters of each whitespace-delimited word that has
\* any, in order
WordsOf(s) ==
    LET ws == SplitWords(s, <<>>)
        ls == [i \in 1..Len(ws) |-> LettersOf(ws[i])]
    IN SelectSeq(ls, LAMBDA l : l # <<>>)

NoWordOverBudget(s) ==
    LET ws == SplitWords(s, <<>>) IN \A i \in 1..Len(ws) : StrLen(ws[i]) <= CHUNK_SIZE

\* C1: for a text longer than 1600 characters, every body handed to
\* _send_single_whatsapp_message, its "[i/N]" indicator included, has at most
\* 1600 characters.
C1_BodiesWithinLimit ==
    StrLen(message_text) > MAX_MESSAGE_LENGTH =>
        /\ \A i \in 1..Len(outbox) : BodyLen(outbox[i]) <= MAX_MESSAGE_LENGTH
        /\ \A i \in 1..Len(to_send) : BodyLen(to_send[i]) <= MAX_MESSAGE_LENGTH

\* a text with an over-long word has been sent in several bodies, one of them
\* a truncated chunk of CHUNK_SIZE characters behind its indicator
C1_Witness ==
    /\ cpc = "done"
    /\ StrLen(message_text) > MAX_MESSAGE_LENGTH
    /\ Len(outbox) >= 2
    /\ \E i \in 1..Len(outbox) :
          /\ outbox[i].ind > 0
          /\ StrLen(outbox[i].txt) = CHUNK_SIZE
          /\ \E j \in 1..Len(message_text) : message_text[j].n > CHUNK_SIZE

\* C2: for a text longer than 1600 characters with no word over the
\* per-segment budget, the bodies of a completed call, in send order and with
\* the indicators stripped, hold the words of the input, each once and in the
\* input's order.
C2_WordsPreserved ==
    (/\ cpc = "done"
     /\ StrLen(message_text) > MAX_MESSAGE_LENGTH
     /\ NoWordOverBudget(message_text))
    => WordsOf(JoinBodies(outbox)) = WordsOf(message_text)

\* a text of several words was split into several bodies
C2_Witness ==
    /\ cpc = "done"
    /\ StrLen(message_text) > MAX_MESSAGE_LENGTH
    /\ NoWordOverBudget(message_text)
    /\ Len(outbox) >= 2
    /\ Len(WordsOf(message_text)) >= 2

\* C13 as stated: a text of at most 1600 characters is sent as one message
\* whose body is the text with its leading and trailing whitespace removed.
C13_ShortTextSentTrimmed ==
    (StrLen(message_text) <= MAX_MESSAGE_LENGTH /\ cpc \in {"done", "raised"})
        => outbox = <<Body(0, 0, 0, Strip(message_text))>>

\* C13: a text of at most 1600 characters is handed to
\* _send_single_whatsapp_message exactly once, with a body equal to the text
\* as it was given, leading and trailing whitespace included and no indicator.
C13_ShortTextSentAsIs ==
    StrLen(message_text) <= MAX_MESSAGE_LENGTH =>
        /\ cpc = "sending" => (to_send = <<Body(0, 0, 0, message_text)>>
                                /\ outbox = <<>>)
        /\ cpc \in {"done", "raised"}
            => outbox = <<Body(0, 0, 0, message_text)>>
        /\ cpc = "done" => to_send = <<>>

\* a short text that begins or ends with whitespace has been sent
C13_Witness ==
    /\ cpc = "done"
    /\ StrLen(message_text) <= MAX_MESSAGE_LENGTH
    /\ StrLen(message_text) > StrLen(Strip(message_text))
    /\ Strip(message_text) # <<>>
    /\ Len(outbox) = 1
    /\ outbox[1].txt = message_text

\* the number of letters of the input's letter run i in a string
RECURSIVE LetterCount(_, _)
LetterCount(str, i) ==
    IF str = <<>> THEN 0
    ELSE (IF Head(str).k = "w" /\ Head(str).id = i THEN Head(str).n ELSE 0)
         + LetterCount(Tail(str), i)

\* C14 as stated: when the text holds a whitespace-free run of letters longer
\* than the per-segment budget, a completed call has sent every character of
\* that run.
C14_LongWordFullySent ==
    (cpc = "done" /\ StrLen(message_text) > MAX_MESSAGE_LENGTH) =>
        \A j \in 1..Len(message_text) :
            (message_text[j].k = "w" /\ message_text[j].n > CHUNK_SIZE) =>
                LetterCount(JoinBodies(outbox), message_text[j].id)
                    = message_text[j].n

-----------------------------------------------------------------------------
(* Claims about the session cache, the token cache and the sequence ids *)

\* C3: get_agentforce_session for a sender whose cached session was created at
\* T: before T + 30 minutes the call returns the cached id and makes no
\* session-creation request; at or after T + 30 minutes it never answers from
\* the cache: it asks for a token if none is cached, makes one creation request
\* once it has a token, and returns the id that request created.
C3_SessionCacheWindow ==
    (last_call.op = "get_session" /\ last_call.before # NoSession) =>
        LET T == last_call.before.created_at
            f == last_call.from_number
        IN /\ last_call.at < T + 30 * 60 =>
                 /\ last_call.result = "return"
                 /\ last_call.value = last_call.before.session_id
                 /\ last_call.session_posts = 0
                 /\ sessions[f] = last_call.before
           /\ last_call.at >= T + 30 * 60 =>
                 /\ last_call.value # last_call.before.session_id
                 /\ last_call.token_ok => last_call.session_posts = 1
                 /\ ~last_call.token_ok => last_call.session_posts = 0
                 /\ last_call.result = "return" =>
                       /\ last_call.session_posts = 1
                       /\ sessions[f].session_id = last_call.value
                       /\ sessions[f].created_at = last_call.at
                 /\ last_call.result = "raise" => sessions[f] = last_call.before

\* a call made exactly 30 minutes after the session was created has created
\* a new one
C3_Witness ==
    /\ last_call.op = "get_session"
    /\ last_call.before # NoSession
    /\ last_call.at = last_call.before.created_at + 30 * 60
    /\ last_call.result = "return"
    /\ last_call.session_posts = 1

C5_SequenceIds ==
    \A i \in 1..Len(seq_log) :
        LET e == seq_log[i]
            earlier == {j \in 1..(i - 1) : seq_log[j].session_id = e.session_id}
        IN /\ \A j \in earlier : seq_log[j].sequence_id < e.sequence_id
           /\ earlier = {} => e.sequence_id = 1

\* two messages were posted on one session and a third on the session that
\* replaced it
C5_Witness ==
    /\ Len(seq_log) = 3
    /\ \A i \in 1..3 : seq_log[i].posted
    /\ seq_log[1].session_id = seq_log[2].session_id
    /\ seq_log[2].sequence_id = 2
    /\ seq_log[3].session_id # seq_log[2].session_id
    /\ seq_log[3].sequence_id = 1

\* C15: when the message endpoint answers 204, send_to_agentforce makes
\* exactly one GET of the session's messages and returns: the text of the
\* last message when the GET yields one, the 'processing' message in every
\* other case; it never raises on this path, and makes no GET on the others.
C15_NoContentPath ==
    (last_call.op = "send" /\ last_call.posted) =>
        /\ last_call.no_content =>
              /\ last_call.polls = 1
              /\ last_call.result = "return"
              /\ last_call.poll_text => last_call.value = "poll_text"
              /\ ~last_call.poll_text => last_call.value = "processing"
        /\ ~last_call.no_content => last_call.polls = 0

\* a 204 whose poll gave no text was answered with the 'processing' message
C15_Witness ==
    /\ last_call.op = "send"
    /\ last_call.posted
    /\ last_call.no_content
    /\ ~last_call.poll_text
    /\ last_call.polls = 1
    /\ last_call.value = "processing"

\* C16: when the session-creation endpoint answers with an error status or
\* without a sessionId, get_agentforce_session raises and the sessions dict
\* is as it was before the call, so the sender still has no valid session
\* and the next call asks for one again.
C16_FailedCreationLeavesSessions ==
    (/\ last_call.op = "get_session"
     /\ last_call.session_posts = 1
     /\ last_call.session_answer \in {"error", "no_session_id"}) =>
        LET f == last_call.from_number IN
        /\ last_call.result = "raise"
        /\ sessions[f] = last_call.before
        /\ \/ sessions[f] = NoSession
           \/ now - sessions[f].created_at >= 30 * 60

\* the replacement of an expired session failed for want of a sessionId
C16_Witness ==
    /\ last_call.op = "get_session"
    /\ last_call.session_posts = 1
    /\ last_call.session_answer = "no_session_id"
    /\ last_call.before # NoSession
    /\ last_call.result = "raise"
    /\ sessions[last_call.from_number] = last_call.before

-----------------------------------------------------------------------------
(* Part 3: one webhook request, its pre-warm task and its voice thread *)

RequestKinds == {"get", "bad_form", "text", "voice"}

Languages == {"en", "ar"}

NoResponse == [status |-> 0, body |-> "none", by |-> "none"]

\* Response('OK', status=200)
OkResponse(handler) == [status |-> 200, body |-> "OK", by |-> handler]

\* an error body under the status of the success path
ErrorResponseAs200(handler) == [status |-> 200, body |-> "error", by |-> handler]

\* the handlers' Response(json.dumps({'error': ...}), status=500)
ErrorResponse(handler) == [status |-> 500, body |-> "error", by |-> handler]

\* no except in handle_webhook: the exception leaves it, no Response is built
ExceptionEscapes ==
    [status |-> 0, body |-> "exception", by |-> "none"]

\* handle_webhook's except: {'error': 'Internal server error'}, status=500
GenericErrorResponse ==
    [status |-> 500, body |-> "Internal server error", by |-> "handle_webhook"]

Ev(name, ok, i) == [e |-> name, ok |-> ok, i |-> i]

\* the statements of handle_text_message's try block, in program order
TextSteps ==
    <<"t_submit", "t_detect", "t_ack", "t_join", "t_agent", "t_reply",
      "t_return">>

\* an order that starts the voice thread before the text messages are sent
VoiceStepsThreadFirst ==
    <<"v_submit", "v_download", "v_stt", "v_thread", "v_echo", "v_ack",
      "v_join", "v_agent", "v_reply", "v_prep", "v_return">>

\* the statements of handle_voice_message's try block, in program order
VoiceSteps ==
    <<"v_submit", "v_download", "v_stt", "v_echo", "v_ack", "v_join",
      "v_agent", "v_reply", "v_prep", "v_thread", "v_return">>

StepAfter(steps, step) ==
    LET k == CHOOSE j \in 1..Len(steps) : steps[j] = step
    IN steps[k + 1]

\* a join that does not wait for a pending task
JoinResultNoWait(task) == IF task = "failed" THEN "raise" ELSE "ok"

\* session_future.result(timeout=10): the task's value, its exception, or
\* TimeoutError when the task has not finished by the end of the wait
JoinResult(task) ==
    CASE task = "ok"      -> "ok"
      [] task = "failed"  -> "raise"
      [] task = "pending" -> "timeout"

AgentOutcomes ==
    {[ok |-> FALSE, chunks |-> 0]} \cup
    {[ok |-> TRUE, chunks |-> n] : n \in 1..MaxReplyChunks}

\* an error-message send whose failure ends the thread
BgAfterReportEscapes(ok) == IF ok THEN "done" ELSE "escaped"

\* lines 371-374: a failure of the error-message send is logged and dropped
BgAfterReport(ok) == "done"

HandlerInit ==
    /\ AgentIdle
    /\ ChunkIdle
    /\ HandlerIdle
    /\ AuxIdle

\* handle_webhook up to the dispatch
Receive ==
    /\ hpc = "idle"
    /\ \E k \in RequestKinds :
        /\ req_kind' = k
        /\ hpc' = CASE k = "text"  -> Head(TextSteps)
                    [] k = "voice" -> Head(VoiceSteps)
                    [] OTHER       -> "done"
        /\ response' = CASE k = "get"      -> OkResponse("handle_verification")
                         [] k = "bad_form" -> GenericErrorResponse
                         [] OTHER          -> response
    /\ UNCHANGED <<lang, prewarm, reply_chunks, chunk_i, bg, events,
                   chunkVars, agentVars, auxVars>>

\* the executor runs get_agentforce_session to its end
PrewarmDone ==
    /\ prewarm = "pending"
    /\ \E ok \in BOOLEAN : prewarm' = IF ok THEN "ok" ELSE "failed"
    /\ UNCHANGED <<req_kind, hpc, lang, reply_chunks, chunk_i, bg, events,
                   response, chunkVars, agentVars, auxVars>>

-----------------------------------------------------------------------------
(* handle_text_message *)

\* line 237: executor.submit(get_agentforce_session, from_number)
T_Submit ==
    /\ hpc = "t_submit"
    /\ prewarm' = "pending"
    /\ events' = Append(events, Ev("prewarm_submit", TRUE, 0))
    /\ hpc' = StepAfter(TextSteps, "t_submit")
    /\ UNCHANGED <<req_kind, lang, reply_chunks, chunk_i, bg, response,
                   chunkVars, agentVars, auxVars>>

\* line 240: detect_language_from_text(message_text)
T_Detect ==
    /\ hpc = "t_detect"
    /\ \E l \in Languages : lang' = l
    /\ events' = Append(events, Ev("detect_language", TRUE, 0))
    /\ hpc' = StepAfter(TextSteps, "t_detect")
    /\ UNCHANGED <<req_kind, prewarm, reply_chunks, chunk_i, bg, response,
                   chunkVars, agentVars, auxVars>>

\* line 244: send_acknowledgment_message
T_Ack ==
    /\ hpc = "t_ack"
    /\ \E ok \in BOOLEAN :
        /\ events' = Append(events, Ev("send_ack", ok, 0))
        /\ hpc' = IF ok THEN StepAfter(TextSteps, "t_ack") ELSE "t_except"
    /\ UNCHANGED <<req_kind, lang, prewarm, reply_chunks, chunk_i, bg,
                   response, chunkVars, agentVars, auxVars>>

\* line 247: session_future.result(timeout=10)
T_Join ==
    /\ hpc = "t_join"
    /\ LET r == JoinResult(prewarm)
       IN /\ events' = Append(events, Ev("join", r = "ok", 0))
          /\ hpc' = IF r = "ok" THEN StepAfter(TextSteps, "t_join")
                    ELSE "t_except"
    /\ UNCHANGED <<req_kind, lang, prewarm, reply_chunks, chunk_i, bg,
                   response, chunkVars, agentVars, auxVars>>

\* line 251: send_to_agentforce(from_number, message_text)
T_Agent ==
    /\ hpc = "t_agent"
    /\ \E r \in AgentOutcomes :
        /\ events' = Append(events, Ev("agent", r.ok, 0))
        /\ reply_chunks' = r.chunks
        /\ hpc' = IF r.ok THEN StepAfter(TextSteps, "t_agent") ELSE "t_except"
    /\ UNCHANGED <<req_kind, lang, prewarm, chunk_i, bg, response,
                   chunkVars, agentVars, auxVars>>

\* line 257: send_whatsapp_message(from_number, response_text), one body a step
T_Reply ==
    /\ hpc = "t_reply"
    /\ \E ok \in BOOLEAN :
        /\ events' = Append(events, Ev("send_reply", ok, chunk_i + 1))
        /\ chunk_i' = IF ok THEN chunk_i + 1 ELSE chunk_i
        /\ hpc' = IF ~ok THEN "t_except"
                  ELSE IF chunk_i + 1 = reply_chunks
                       THEN StepAfter(TextSteps, "t_reply")
                       ELSE "t_reply"
    /\ UNCHANGED <<req_kind, lang, prewarm, reply_chunks, bg, response,
                   chunkVars, agentVars, auxVars>>

\* line 263
T_Return ==
    /\ hpc = "t_return"
    /\ response' = OkResponse("handle_text_message")
    /\ hpc' = "done"
    /\ UNCHANGED <<req_kind, lang, prewarm, reply_chunks, chunk_i, bg, events,
                   chunkVars, agentVars, auxVars>>

\* lines 265-276; when the apology send raises, the exception leaves the
\* handler and handle_webhook's except (185-187) answers
T_Except ==
    /\ hpc = "t_except"
    /\ \E ok \in BOOLEAN :
        /\ events' = Append(events, Ev("send_apology", ok, 0))
        /\ response' = IF ok THEN ErrorResponse("handle_text_message")
                       ELSE GenericErrorResponse
    /\ hpc' = "done"
    /\ UNCHANGED <<req_kind, lang, prewarm, reply_chunks, chunk_i, bg,
                   chunkVars, agentVars, auxVars>>

-----------------------------------------------------------------------------
(* handle_voice_message *)

\* a statement of the try block that either completes or raises
VoiceStep(step, name) ==
    /\ hpc = step
    /\ \E ok \in BOOLEAN :
        /\ events' = Append(events, Ev(name, ok, 0))
        /\ hpc' = IF ok THEN StepAfter(VoiceSteps, step) ELSE "v_except"

\* line 285: executor.submit(get_agentforce_session, from_number)
V_Submit ==
    /\ hpc = "v_submit"
    /\ prewarm' = "pending"
    /\ events' = Append(events, Ev("prewarm_submit", TRUE, 0))
    /\ hpc' = StepAfter(VoiceSteps, "v_submit")
    /\ UNCHANGED <<req_kind, lang, reply_chunks, chunk_i, bg, response,
                   chunkVars, agentVars, auxVars>>

\* line 290: download_twilio_media(media_url)
V_Download ==
    /\ VoiceStep("v_download", "download")
    /\ UNCHANGED <<req_kind, lang, prewarm, reply_chunks, chunk_i, bg,
                   response, chunkVars, agentVars, auxVars>>

\* lines 298-309: elevenlabs_stt and the mapping of its language code
V_Stt ==
    /\ VoiceStep("v_stt", "stt")
    /\ \E l \in Languages : lang' = l
    /\ UNCHANGED <<req_kind, prewarm, reply_chunks, chunk_i, bg, response,
                   chunkVars, agentVars, auxVars>>

\* line 313: send_whatsapp_message(from_number, transcribed_text)
V_Echo ==
    /\ VoiceStep("v_echo", "send_transcript")
    /\ UNCHANGED <<req_kind, lang, prewarm, reply_chunks, chunk_i, bg,
                   response, chunkVars, agentVars, auxVars>>

\* line 317: send_acknowledgment_message
V_Ack ==
    /\ VoiceStep("v_ack", "send_ack")
    /\ UNCHANGED <<req_kind, lang, prewarm, reply_chunks, chunk_i, bg,
                   response, chunkVars, agentVars, auxVars>>

\* line 321: session_future.result(timeout=10)
V_Join ==
    /\ hpc = "v_join"
    /\ LET r == JoinResult(prewarm)
       IN /\ events' = Append(events, Ev("join", r = "ok", 0))
          /\ hpc' = IF r = "ok" THEN StepAfter(VoiceSteps, "v_join")
                    ELSE "v_except"
    /\ UNCHANGED <<req_kind, lang, prewarm, reply_chunks, chunk_i, bg,
                   response, chunkVars, agentVars, auxVars>>

\* line 326: send_to_agentforce(from_number, transcribed_text)
V_Agent ==
    /\ hpc = "v_agent"
    /\ \E r \in AgentOutcomes :
        /\ events' = Append(events, Ev("agent", r.ok, 0))
        /\ reply_chunks' = r.chunks
        /\ hpc' = IF r.ok THEN StepAfter(VoiceSteps, "v_agent") ELSE "v_except"
    /\ UNCHANGED <<req_kind, lang, prewarm, chunk_i, bg, response,
                   chunkVars, agentVars, auxVars>>

\* line 334: send_whatsapp_message(from_number, response_text), one body a step
V_Reply ==
    /\ hpc = "v_reply"
    /\ \E ok \in BOOLEAN :
        /\ events' = Append(events, Ev("send_reply", ok, chunk_i + 1))
        /\ chunk_i' = IF ok THEN chunk_i + 1 ELSE chunk_i
        /\ hpc' = IF ~ok THEN "v_except"
                  ELSE IF chunk_i + 1 = reply_chunks
                       THEN StepAfter(VoiceSteps, "v_reply")
                       ELSE "v_reply"
    /\ UNCHANGED <<req_kind, lang, prewarm, reply_chunks, bg, response,
                   chunkVars, agentVars, auxVars>>

\* line 347: send_voice_preparation_message
V_Prep ==
    /\ VoiceStep("v_prep", "send_prep")
    /\ UNCHANGED <<req_kind, lang, prewarm, reply_chunks, chunk_i, bg,
                   response, chunkVars, agentVars, auxVars>>

\* lines 378-379: voice_thread.start()
V_Thread ==
    /\ hpc = "v_thread"
    /\ bg' = "b_tts"
    /\ hpc' = StepAfter(VoiceSteps, "v_thread")
    /\ UNCHANGED <<req_kind, lang, prewarm, reply_chunks, chunk_i, events,
                   response, chunkVars, agentVars, auxVars>>

\* line 386
V_Return ==
    /\ hpc = "v_return"
    /\ response' = OkResponse("handle_voice_message")
    /\ hpc' = "done"
    /\ UNCHANGED <<req_kind, lang, prewarm, reply_chunks, chunk_i, bg, events,
                   chunkVars, agentVars, auxVars>>

\* lines 388-399; when the apology send raises, the exception leaves the
\* handler and handle_webhook's except (185-187) answers
V_Except ==
    /\ hpc = "v_except"
    /\ \E ok \in BOOLEAN :
        /\ events' = Append(events, Ev("send_apology", ok, 0))
        /\ response' = IF ok THEN ErrorResponse("handle_voice_message")
                       ELSE GenericErrorResponse
    /\ hpc' = "done"
    /\ UNCHANGED <<req_kind, lang, prewarm, reply_chunks, chunk_i, bg,
                   chunkVars, agentVars, auxVars>>

-----------------------------------------------------------------------------
(* generate_and_send_voice, the target of voice_thread *)

\* line 355: elevenlabs_tts(response_text, detected_language_code)
B_Tts ==
    /\ bg = "b_tts"
    /\ \E ok \in BOOLEAN :
        /\ events' = Append(events, Ev("tts", ok, 0))
        /\ bg' = IF ok THEN "b_voice" ELSE "b_report"
    /\ UNCHANGED <<req_kind, hpc, lang, prewarm, reply_chunks, chunk_i,
                   response, chunkVars, agentVars, auxVars>>

\* what lines 1067-1103 of send_whatsapp_voice_message can come to
VoiceOutcomes == {"store_error", "post_error", "no_media", "delivered"}

\* send_whatsapp_voice_message, lines 1067-1106: an exception of the decoding,
\* the storing or the POST is caught inside the function; the event of the
\* POST carries whether Twilio accepted it and the num_media of the answer
B_Voice ==
    /\ bg = "b_voice"
    /\ \E o \in VoiceOutcomes :
        /\ events' = IF o = "store_error"
                     THEN Append(events, Ev("voice_store", FALSE, 0))
                     ELSE Append(events, Ev("voice_post", o # "post_error",
                                            IF o = "delivered" THEN 1 ELSE 0))
        /\ bg' = IF o \in {"store_error", "post_error"} THEN "b_fallback"
                 ELSE "done"
    /\ UNCHANGED <<req_kind, hpc, lang, prewarm, reply_chunks, chunk_i,
                   response, chunkVars, agentVars, auxVars>>

\* line 1109: the fallback send_whatsapp_message(clean_number, text_message);
\* its exception is the only one that reaches generate_and_send_voice
B_Fallback ==
    /\ bg = "b_fallback"
    /\ \E ok \in BOOLEAN :
        /\ events' = Append(events, Ev("send_fallback_text", ok, 0))
        /\ bg' = IF ok THEN "done" ELSE "b_report"
    /\ UNCHANGED <<req_kind, hpc, lang, prewarm, reply_chunks, chunk_i,
                   response, chunkVars, agentVars, auxVars>>

\* lines 361-374: the error message, in the language of the request
B_Report ==
    /\ bg = "b_report"
    /\ \E ok \in BOOLEAN :
        /\ events' = Append(events, Ev("send_voice_error", ok, 0))
        /\ bg' = BgAfterReport(ok)
    /\ UNCHANGED <<req_kind, hpc, lang, prewarm, reply_chunks, chunk_i,
                   response, chunkVars, agentVars, auxVars>>

HandlerNext ==
    \/ Receive \/ PrewarmDone
    \/ T_Submit \/ T_Detect \/ T_Ack \/ T_Join \/ T_Agent \/ T_Reply
    \/ T_Return \/ T_Except
    \/ V_Submit \/ V_Download \/ V_Stt \/ V_Echo \/ V_Ack \/ V_Join \/ V_Agent
    \/ V_Reply \/ V_Prep \/ V_Thread \/ V_Return \/ V_Except
    \/ B_Tts \/ B_Voice \/ B_Fallback \/ B_Report

SpecHandler == HandlerInit /\ [][HandlerNext]_vars

-----------------------------------------------------------------------------
(* Claims about the handlers *)

Has(name, ok) ==
    \E k \in DOMAIN events : events[k].e = name /\ events[k].ok = ok

TextSends ==
    {"send_transcript", "send_ack", "send_reply", "send_prep", "send_apology",
     "send_fallback_text", "send_voice_error"}

NoEventFailed == \A k \in DOMAIN events : events[k].ok

\* C6: a voice-attachment send is preceded, in this order, by the
\* transcription call, the transcript echo, the agent call and every body of
\* the reply; and a voice request whose steps all succeed ends with the
\* voice-attachment send made.
C6_VoiceEventOrder ==
    /\ \A k \in DOMAIN events :
        events[k].e = "voice_post" =>
            /\ reply_chunks >= 1
            /\ \E a, b, c \in 1..(k - 1) :
                /\ a < b /\ b < c
                /\ events[a] = Ev("stt", TRUE, 0)
                /\ events[b] = Ev("send_transcript", TRUE, 0)
                /\ events[c] = Ev("agent", TRUE, 0)
                /\ \A j \in 1..reply_chunks :
                    \E d \in (c + 1)..(k - 1) :
                        /\ events[d] = Ev("send_reply", TRUE, j)
                        /\ \A d2 \in (c + 1)..(d - 1) :
                            events[d2].e = "send_reply" => events[d2].i < j
    /\ (req_kind = "voice" /\ hpc = "done" /\ bg = "done" /\ NoEventFailed)
        => Has("voice_post", TRUE)

C6_Witness ==
    /\ req_kind = "voice"
    /\ bg = "done"
    /\ NoEventFailed
    /\ reply_chunks >= 2
    /\ Ev("voice_post", TRUE, 1) \in {events[k] : k \in DOMAIN events}

\* C7: language detection, transcription and the acknowledgment send come
\* after the submission of the pre-warm task, and the agent call comes only
\* after a join that found the task completed successfully.
C7_PrewarmBeforeAgent ==
    /\ \A k \in DOMAIN events :
        events[k].e \in {"detect_language", "stt", "send_ack"} =>
            \E a \in 1..(k - 1) : events[a].e = "prewarm_submit"
    /\ \A k \in DOMAIN events :
        events[k].e = "agent" =>
            /\ prewarm = "ok"
            /\ k > 1 /\ events[k - 1] = Ev("join", TRUE, 0)

C7_Witness ==
    /\ req_kind = "text"
    /\ Has("send_ack", TRUE)
    /\ Has("agent", TRUE)

\* C8: after the reply and the voice-preparation notice are sent the request
\* is answered 200 by handle_voice_message; whatever the voice thread does
\* afterwards the response stays that one, and the thread never ends with an
\* exception.
C8_BackgroundNeverSurfaces ==
    /\ (req_kind = "voice" /\ Has("send_prep", TRUE) /\ hpc = "done")
        => (response.status = 200 /\ response.by = "handle_voice_message")
    /\ Has("send_prep", TRUE) => hpc \in {"v_thread", "v_return", "done"}
    /\ bg \in {"none", "b_tts", "b_voice", "b_fallback", "b_report", "done"}
    /\ bg # "none" => Has("send_prep", TRUE)

C8_Witness ==
    /\ response.status = 200
    /\ response.by = "handle_voice_message"
    /\ bg = "done"
    /\ Has("send_voice_error", FALSE)

TextStepFailed ==
    \E k \in DOMAIN events :
        /\ events[k].e \in {"send_ack", "join", "agent", "send_reply"}
        /\ ~events[k].ok

\* C9 as stated: after a failed step of handle_text_message the apology has
\* been sent and the handler has returned a 500 response.
C9_ApologySentAndHandler500 ==
    (req_kind = "text" /\ hpc = "done" /\ TextStepFailed) =>
        /\ Has("send_apology", TRUE)
        /\ response.status = 500
        /\ response.by = "handle_text_message"

\* C9: after a failed step of handle_text_message the apology send has been
\* attempted and the request is answered 500: by the handler, with the error
\* in the body, when the apology was sent, and by handle_webhook, with the
\* generic body, when the apology send failed too.
C9_ApologyAttempted ==
    (req_kind = "text" /\ hpc = "done" /\ TextStepFailed) =>
        /\ \E k \in DOMAIN events : events[k].e = "send_apology"
        /\ response.status = 500
        /\ Has("send_apology", TRUE) =>
            (response.by = "handle_text_message" /\ response.body = "error")
        /\ Has("send_apology", FALSE) =>
            (response.by = "handle_webhook"
             /\ response.body = "Internal server error")

C9_Witness ==
    /\ req_kind = "text"
    /\ hpc = "done"
    /\ Has("agent", FALSE)
    /\ Has("send_apology", FALSE)

\* C10 as stated, for the runs where Twilio accepts every text message: when
\* the voice thread has ended after a failed synthesis or a failed delivery
\* of the attachment, the error message has been sent.
C10_VoiceFailureReported ==
    (/\ bg = "done"
     /\ (Has("tts", FALSE) \/ Has("voice_store", FALSE)
         \/ Has("voice_post", FALSE))
     /\ \A k \in DOMAIN events : events[k].e \in TextSends => events[k].ok)
        => Has("send_voice_error", TRUE)

\* C18: handle_webhook always answers: a request that cannot be parsed and an
\* exception that leaves a handler (a failed apology send included) are
\* answered 500 with the generic body, and a GET is answered 200 'OK' by
\* handle_verification with no handler run.
C18_WebhookNeverRaises ==
    hpc = "done" =>
        /\ response.status \in {200, 500}
        /\ req_kind = "bad_form" =>
            /\ response = [status |-> 500, body |-> "Internal server error",
                           by |-> "handle_webhook"]
            /\ events = <<>>
        /\ Has("send_apology", FALSE) =>
            response = [status |-> 500, body |-> "Internal server error",
                        by |-> "handle_webhook"]
        /\ req_kind = "get" =>
            /\ response = [status |-> 200, body |-> "OK",
                           by |-> "handle_verification"]
            /\ events = <<>>
            /\ prewarm = "none"
            /\ bg = "none"

C18_Witness ==
    /\ req_kind = "voice"
    /\ hpc = "done"
    /\ Has("send_apology", FALSE)
    /\ response.by = "handle_webhook"

-----------------------------------------------------------------------------
(* Part 4: the audio caches of main.py and of app.py.  One of the two      *)
(* services is followed; requests are served one after the other; the ids  *)
(* generated (a timestamp with 4 random bytes, a uuid4) are distinct.      *)

AUDIO_RETENTION_MINUTES == 5

APP_RETENTION_SECONDS == 7200

AudioStores == {"main", "app"}

AudioData == {1, 2}

\* steps of the clock, chosen to land on and just after the service's window
AudioClockSteps(store) == IF store = "main" THEN {1, 300} ELSE {1, 7200}

\* an entry is removed as soon as its age reaches the window
MainExpiredAtWindow(rec, t) ==
    rec.timestamp <= t - Minutes(AUDIO_RETENTION_MINUTES)

\* cleanup_old_audio: data['timestamp'] < cutoff_time
MainExpired(rec, t) == rec.timestamp < t - Minutes(AUDIO_RETENTION_MINUTES)

\* get_audio: (current_time - value['timestamp']).total_seconds() > 7200
AppExpired(rec, t) == t - rec.timestamp > APP_RETENTION_SECONDS

\* cleanup_old_audio: the cache after the sweep
cleanup_old_audio(cache, t) ==
    [i \in DOMAIN cache |->
        IF cache[i] # NoAudio /\ MainExpired(cache[i], t)
        THEN NoAudio ELSE cache[i]]

\* upload_audio_to_twilio: the entry is stored, then the sweep runs
upload_audio_to_twilio(cache, audio_id, audio_data, t) ==
    cleanup_old_audio(
        [cache EXCEPT ![audio_id] = [data |-> audio_data, timestamp |-> t]], t)

\* serve_audio: the response; the cache is not touched
serve_audio(cache, audio_id) ==
    IF cache[audio_id] = NoAudio
    THEN [status |-> 404, body |-> NONE, cache |-> cache]
    ELSE [status |-> 200, body |-> cache[audio_id].data, cache |-> cache]

\* the sweeps of get_audio: every expired key but the one being served
AppSweep(cache, t, served) ==
    [i \in DOMAIN cache |->
        IF cache[i] # NoAudio /\ i # served /\ AppExpired(cache[i], t)
        THEN NoAudio ELSE cache[i]]

\* get_audio for a GET: the response and the cache afterwards
get_audio(cache, audio_id, t) ==
    IF cache[audio_id] = NoAudio
    THEN [status |-> 404, body |-> NONE, cache |-> AppSweep(cache, t, 0)]
    ELSE [status |-> 200, body |-> cache[audio_id].data,
          cache |-> AppSweep(cache, t, audio_id)]

\* keys as they reach check_api_key: NONE (absent), 1 (the configured key),
\* 2 (another key); 0 stands for the empty string
KeyValues == {NONE, 1, 2}

\* Python's truth value of an optional string
Truthy(x) == x \notin {NONE, 0}

\* a check that lets every request pass
check_api_key_open(key, header, query) == TRUE

\* check_api_key, with the X-API-Key header and the api_key query parameter
check_api_key(key, header, query) ==
    IF ~Truthy(key) THEN TRUE
    ELSE LET provided_key == IF Truthy(header) THEN header ELSE query
         IN provided_key = key

\* the bodies of a POST /synthesize: malformed JSON, the JSON value null, an
\* object without 'text', and objects whose 'text' is null, '', blank or a text
SynthBodies ==
    {"not_json", "json_null", "no_text", "text_null", "text_empty",
     "text_blank", "text"}

ReturnTypes == {"url", "base64"}

\* synthesize_speech_google: audio bytes, or an exception
TtsError == [ok |-> FALSE, audio |-> NONE]

TtsOutcomes == {TtsError} \cup {[ok |-> TRUE, audio |-> d] : d \in AudioData}

\* the characters of a text by class: Latin letters, the Arabic letters of
\* detect_language's arabic_chars, and Arabic letters that set leaves out
CharClasses == {"latin", "arabic_listed", "arabic_unlisted"}

\* the texts of a request, each as the set of the classes of its characters
SynthTexts == {{"latin"}, {"latin", "arabic_listed"}, {"arabic_unlisted"}}

\* the text of the requests that reach the provider, and whether the body
\* names language_code and voice_name ("both") or not ("none")
SynthRequests ==
    {[text |-> tx, lang |-> "none"] : tx \in SynthTexts}
    \cup {[text |-> {"latin"}, lang |-> "both"]}

\* the X-API-Key header and the api_key query parameter of the requests; a
\* server without a key never reads them
Credentials(key) ==
    IF Truthy(key) THEN KeyValues \X KeyValues
    ELSE {<<NONE, NONE>>, <<2, NONE>>, <<NONE, 2>>}

\* a detection that answers Arabic for every text
detect_language_arabic(text_chars) == "ar-XA"

\* detect_language: Arabic when a character of the text is in arabic_chars
detect_language(text_chars) ==
    IF "arabic_listed" \in text_chars THEN "ar-XA" ELSE "en-US"

\* base64.b64encode and base64.b64decode, on audio bytes
B64Encode(d) == [b64 |-> d]

B64Decode(x) == x.b64

NoB64 == [b64 |-> NONE]

\* what synthesize answers when it returns an error
SynthError(status, tts_calls, cache) ==
    [status |-> status, tts_calls |-> tts_calls, cache |-> cache,
     language |-> "none", audio_base64 |-> NoB64]

\* synthesize for a POST: the status, the calls made to the TTS provider, the
\* cache afterwards, and language_detected and audio_base64 of the answer
synthesize(key, header, query, body, text_chars, lang_params, return_type, tts, cache, audio_id, t) ==
    IF ~check_api_key(key, header, query)
    THEN SynthError(401, 0, cache)
    ELSE IF body = "not_json"
    THEN SynthError(500, 0, cache)
    ELSE IF body \in {"json_null", "no_text"}
    THEN SynthError(400, 0, cache)
    ELSE IF body = "text_null"
    THEN SynthError(500, 0, cache)
    ELSE IF body \in {"text_empty", "text_blank"}
    THEN SynthError(400, 0, cache)
    ELSE LET language_code == IF lang_params = "both" THEN "given"
                              ELSE detect_language(text_chars)
    IN
    IF ~tts.ok
    THEN SynthError(500, 1, cache)
    ELSE IF return_type = "base64"
    THEN [status |-> 200, tts_calls |-> 1, cache |-> cache,
          language |-> language_code, audio_base64 |-> B64Encode(tts.audio)]
    ELSE [status |-> 200, tts_calls |-> 1,
          cache |-> [cache EXCEPT ![audio_id] =
                        [data |-> tts.audio, timestamp |-> t]],
          language |-> language_code, audio_base64 |-> B64Encode(tts.audio)]

AudioInit ==
    /\ AgentIdle /\ ChunkIdle /\ HandlerIdle /\ DownloadIdle /\ RaceIdle
    /\ PureIdle
    /\ a_store \in AudioStores
    /\ api_key \in IF a_store = "app" THEN {NONE, 1} ELSE {NONE}
    /\ a_now = 0
    /\ audio_cache = [i \in AudioIds |-> NoAudio]
    /\ a_next = 0
    /\ a_log = [i \in AudioIds |-> NoAudio]
    /\ a_last = [op |-> "none"]
    /\ a_steps = 0

AudioTick ==
    /\ a_steps < MaxAudioSteps
    /\ \E d \in AudioClockSteps(a_store) : a_now' = a_now + d
    /\ a_steps' = a_steps + 1
    /\ UNCHANGED <<a_store, api_key, audio_cache, a_next, a_log, a_last,
                   chunkVars, agentVars, handlerVars, downloadVars, raceVars,
                   pureVars>>

\* main.py: send_whatsapp_voice_message stores the audio of a reply
Upload ==
    /\ a_store = "main"
    /\ a_steps < MaxAudioSteps
    /\ a_next < MaxUploads
    /\ \E audio_data \in AudioData :
        LET audio_id == a_next + 1 IN
        /\ audio_cache' = upload_audio_to_twilio(audio_cache, audio_id,
                                                 audio_data, a_now)
        /\ a_log' = [a_log EXCEPT ![audio_id] =
                        [data |-> audio_data, timestamp |-> a_now]]
        /\ a_last' = [op |-> "upload", id |-> audio_id, at |-> a_now]
    /\ a_next' = a_next + 1
    /\ a_steps' = a_steps + 1
    /\ UNCHANGED <<a_store, api_key, a_now, chunkVars, agentVars, handlerVars,
                   downloadVars, raceVars,
                   pureVars>>

\* main.py: GET /audio/<audio_id>
ServeAudio ==
    /\ a_store = "main"
    /\ a_steps < MaxAudioSteps
    /\ \E audio_id \in AudioIds :
        LET r == serve_audio(audio_cache, audio_id) IN
        /\ audio_cache' = r.cache
        /\ a_last' = [op |-> "get", id |-> audio_id, at |-> a_now,
                      status |-> r.status, body |-> r.body]
    /\ a_steps' = a_steps + 1
    /\ UNCHANGED <<a_store, api_key, a_now, a_next, a_log, chunkVars,
                   agentVars, handlerVars, downloadVars, raceVars,
                   pureVars>>

\* app.py: GET /audio/<audio_id>
GetAudio ==
    /\ a_store = "app"
    /\ a_steps < MaxAudioSteps
    /\ \E audio_id \in AudioIds :
        LET r == get_audio(audio_cache, audio_id, a_now) IN
        /\ audio_cache' = r.cache
        /\ a_last' = [op |-> "get", id |-> audio_id, at |-> a_now,
                      status |-> r.status, body |-> r.body]
    /\ a_steps' = a_steps + 1
    /\ UNCHANGED <<a_store, api_key, a_now, a_next, a_log, chunkVars,
                   agentVars, handlerVars, downloadVars, raceVars,
                   pureVars>>

\* app.py: POST /synthesize
Synthesize ==
    /\ a_store = "app"
    /\ a_steps < MaxAudioSteps
    /\ a_next < MaxUploads
    /\ \E cred \in Credentials(api_key) :
       \E body \in IF check_api_key(api_key, cred[1], cred[2])
                   THEN SynthBodies ELSE {"unread"} :
       \E tts \in IF body = "text" THEN TtsOutcomes ELSE {TtsError} :
       \E return_type \in IF tts.ok THEN ReturnTypes ELSE {"url"} :
       \E req \in IF tts.ok THEN SynthRequests
                  ELSE {[text |-> {"latin"}, lang |-> "none"]} :
        LET header == cred[1]
            query == cred[2]
            text_chars == req.text
            lang_params == req.lang
            audio_id == a_next + 1
            r == synthesize(api_key, header, query, body, text_chars,
                            lang_params, return_type, tts, audio_cache,
                            audio_id, a_now)
            stored == r.cache # audio_cache
        IN
        /\ audio_cache' = r.cache
        /\ a_next' = IF stored THEN audio_id ELSE a_next
        /\ a_log' = IF stored
                    THEN [a_log EXCEPT ![audio_id] = r.cache[audio_id]]
                    ELSE a_log
        /\ a_last' = [op |-> "synthesize", header |-> header, query |-> query,
                      body |-> body, text |-> text_chars,
                      lang |-> lang_params, return_type |-> return_type,
                      tts |-> tts, status |-> r.status,
                      tts_calls |-> r.tts_calls, stored |-> stored,
                      language |-> r.language,
                      audio_base64 |-> r.audio_base64]
    /\ a_steps' = a_steps + 1
    /\ UNCHANGED <<a_store, api_key, a_now, chunkVars, agentVars, handlerVars,
                   downloadVars, raceVars,
                   pureVars>>

AudioNext == AudioTick \/ Upload \/ ServeAudio \/ GetAudio \/ Synthesize

SpecAudio == AudioInit /\ [][AudioNext]_vars

-----------------------------------------------------------------------------
(* Claims about the audio caches *)

\* the age, at time t, of what was stored under an id
AgeAt(audio_id, t) == t - a_log[audio_id].timestamp

\* C11: an entry no older than the window of its service (300 s in main.py,
\* 7200 s in app.py) is still in the cache, as it was stored, whatever
\* uploads, fetches and sweeps came in between, and a GET for it inside the
\* window answers 200 with the bytes stored.
C11_ServedWithinWindow ==
    LET window == IF a_store = "main" THEN 300 ELSE 7200 IN
    /\ \A i \in AudioIds :
        (a_log[i] # NoAudio /\ AgeAt(i, a_now) <= window)
            => audio_cache[i] = a_log[i]
    /\ (/\ a_last.op = "get"
        /\ a_log[a_last.id] # NoAudio
        /\ AgeAt(a_last.id, a_last.at) <= window)
        => (a_last.status = 200 /\ a_last.body = a_log[a_last.id].data)

\* main.py: the first entry is fetched when it is exactly 5 minutes old, after
\* the upload of a second entry, with other bytes, has run the sweep
C11_Witness ==
    /\ a_store = "main"
    /\ a_last.op = "get"
    /\ a_last.id = 1
    /\ AgeAt(1, a_last.at) = 300
    /\ a_log[2] # NoAudio
    /\ a_log[2].timestamp = a_last.at
    /\ a_log[2].data # a_log[1].data
    /\ a_last.status = 200

\* C12 as stated: a GET for an entry older than the window of its service
\* answers 404.
C12_NotFoundAfterWindow ==
    LET window == IF a_store = "main" THEN 300 ELSE 7200 IN
    (/\ a_last.op = "get"
     /\ a_log[a_last.id] # NoAudio
     /\ AgeAt(a_last.id, a_last.at) > window)
        => a_last.status = 404

\* the key a request presents: the header when it is not empty, else the
\* query parameter
ProvidedKey == IF a_last.header \notin {NONE, 0} THEN a_last.header
               ELSE a_last.query

\* C19 as stated: with a key configured, POST /synthesize is answered 401
\* exactly when neither the header nor the query parameter equals the key.
C19_RejectedIffNeitherMatches ==
    a_last.op = "synthesize" =>
        (a_last.status = 401 <=>
            /\ api_key \notin {NONE, 0}
            /\ a_last.header # api_key
            /\ a_last.query # api_key)

\* C19: with a key configured, POST /synthesize is answered 401, with no TTS
\* call and no cache write, exactly when the presented key (the header when
\* it is not empty, else the query parameter) differs from the configured
\* key; with no key configured no request is answered 401.
C19_RejectedIffPresentedKeyDiffers ==
    a_last.op = "synthesize" =>
        /\ a_last.status = 401 <=>
            (api_key \notin {NONE, 0} /\ ProvidedKey # api_key)
        /\ a_last.status = 401 =>
            (a_last.tts_calls = 0 /\ ~a_last.stored)

C19_Witness ==
    /\ a_last.op = "synthesize"
    /\ api_key \notin {NONE, 0}
    /\ a_last.status = 401
    /\ a_last.header \notin {NONE, api_key}
    /\ a_last.query = api_key

\* C20 as stated: an authenticated POST /synthesize whose JSON body has no
\* text, a null text or an empty or blank text is answered 400, with no TTS
\* call and the audio cache unchanged.
C20_MissingTextIs400 ==
    (/\ a_last.op = "synthesize"
     /\ a_last.status # 401
     /\ a_last.body \in {"no_text", "text_null", "text_empty", "text_blank"})
    => /\ a_last.status = 400
       /\ a_last.tts_calls = 0
       /\ ~a_last.stored

\* C21: a POST /synthesize with return_type 'base64', without language_code
\* and voice_name, for a text with no Arabic letter, is answered, when the
\* provider call succeeds, 200 with language_detected 'en-US' and with
\* audio_base64 the base64 encoding of the provider's audio, and nothing is
\* added to the audio cache.
C21_Base64EnglishAnswer ==
    (/\ a_last.op = "synthesize"
     /\ a_last.status # 401
     /\ a_last.body = "text"
     /\ a_last.return_type = "base64"
     /\ a_last.lang = "none"
     /\ a_last.text = {"latin"}
     /\ a_last.tts.ok)
    => /\ a_last.status = 200
       /\ a_last.language = "en-US"
       /\ B64Decode(a_last.audio_base64) = a_last.tts.audio
       /\ ~a_last.stored

C21_Witness ==
    /\ a_last.op = "synthesize"
    /\ api_key # NONE
    /\ a_last.body = "text"
    /\ a_last.return_type = "base64"
    /\ a_last.lang = "none"
    /\ a_last.text = {"latin"}
    /\ a_last.tts.ok
    /\ a_last.status = 200
    /\ \E i \in AudioIds : audio_cache[i] # NoAudio

-----------------------------------------------------------------------------
(* Part 5: download_twilio_media, in main.py and in main_elevenlabs.py *)

MAX_RETRIES == 3

DownloadImpls == {"main", "main_elevenlabs"}

\* what one GET of the media URL may come to: a 200 with a body, a 404,
\* another error status (4xx, 5xx), a status that is neither 200 nor an error
\* (204, 206, 304, ...), or an exception of the transport
DownloadResponses ==
    {[status |-> "200", content |-> b] : b \in {1, 2}}
    \cup {[status |-> st, content |-> 0] :
            st \in {"404", "error_status", "other_status", "exception"}}

\* response.raise_for_status() raises for the 4xx and 5xx statuses only
RaisesForStatus(status) == status \in {"404", "error_status"}

\* the except block of the loop: raise on the last attempt, else go on
DownloadExcept(attempt) ==
    IF attempt = MAX_RETRIES - 1 THEN "raise" ELSE "continue"

\* the body of the loop for one answer: "continue", "return" or "raise"
DownloadStep(attempt, resp) ==
    IF resp.status = "exception" THEN DownloadExcept(attempt)
    ELSE IF resp.status = "404" /\ attempt < MAX_RETRIES - 1 THEN "continue"
    ELSE IF resp.status # "200" /\ RaisesForStatus(resp.status)
    THEN DownloadExcept(attempt)
    ELSE "return"

\* 0.5 seconds, the first wait, in milliseconds
BASE_WAIT_MILLIS == 500

\* wait_time = 0.5 * (2 ** attempt), in milliseconds
WaitTime(attempt) == BASE_WAIT_MILLIS * 2 ^ attempt

\* the loop sleeps only in the branch of a 404 that is not the last attempt
DownloadSleeps(attempt, resp) ==
    resp.status = "404" /\ attempt < MAX_RETRIES - 1

DownloadInit ==
    /\ AgentIdle /\ ChunkIdle /\ HandlerIdle /\ AudioIdle /\ RaceIdle
    /\ PureIdle
    /\ d_impl \in DownloadImpls
    /\ d_pc = "try"
    /\ d_attempt = 0
    /\ d_seen = <<>>
    /\ d_value = NONE
    /\ d_waits = <<>>

\* one iteration of for attempt in range(max_retries)
DownloadAttempt ==
    /\ d_pc = "try"
    /\ d_attempt < MAX_RETRIES
    /\ \E resp \in DownloadResponses :
        LET o == DownloadStep(d_attempt, resp) IN
        /\ d_seen' = Append(d_seen, resp)
        /\ d_pc' = CASE o = "continue" -> "try"
                     [] o = "return"   -> "returned"
                     [] o = "raise"    -> "raised"
        /\ d_value' = IF o = "return" THEN resp.content ELSE d_value
        /\ d_attempt' = IF o = "continue" THEN d_attempt + 1 ELSE d_attempt
        /\ d_waits' = IF DownloadSleeps(d_attempt, resp)
                      THEN Append(d_waits, WaitTime(d_attempt))
                      ELSE d_waits
    /\ UNCHANGED <<d_impl, chunkVars, agentVars, handlerVars, audioVars,
                   raceVars, pureVars>>

\* the last iteration never continues, so the loop never runs out
DownloadNext == DownloadAttempt

SpecDownload == DownloadInit /\ [][DownloadNext]_vars

LastSeen == d_seen[Len(d_seen)]

\* C17: download_twilio_media makes at most three GET attempts, returns only
\* the body of a response whose status is 200, and raises only after the
\* third failed attempt.
C17_ReturnsOnly200Body ==
    /\ Len(d_seen) <= 3
    /\ d_pc = "returned" =>
        /\ LastSeen.status = "200"
        /\ d_value = LastSeen.content
    /\ d_pc = "raised" => Len(d_seen) = 3

\* C27: when every GET is answered 404, main.py's download_twilio_media
\* has slept 0.5 s, 1 s and 2 s, 3.5 s in all, when it gives up.
C27_WaitSchedule ==
    (/\ d_impl = "main"
     /\ d_pc = "raised"
     /\ \A k \in DOMAIN d_seen : d_seen[k].status = "404")
    => d_waits = <<500, 1000, 2000>>

-----------------------------------------------------------------------------
(* Part 6: send_to_agentforce and get_agentforce_session run by two threads
   for one sender. A step is what a thread does between two points at which
   another thread can run: a read of a shared dict, a request, a write. *)

RaceSender == "+1"

\* the instant of the run; no clock step is taken during it
RaceNow == Minutes(SESSION_TIMEOUT_MINUTES) + DEFAULT_EXPIRES_IN

\* the sessions dict at the start: no entry, an expired one, a valid one
RaceSessions ==
    [none    |-> NoSession,
     expired |-> [session_id |-> 1, sequence_id |-> 2,
                  created_at |-> RaceNow - Minutes(SESSION_TIMEOUT_MINUTES)],
     valid   |-> [session_id |-> 1, sequence_id |-> 2,
                  created_at |-> RaceNow - 1]]

\* token_cache at the start: empty, expired, valid
RaceTokens ==
    [none    |-> [token |-> NONE, expires_at |-> NONE],
     expired |-> [token |-> 2, expires_at |-> RaceNow],
     valid   |-> [token |-> 2, expires_at |-> RaceNow + 1]]

\* a thread at the first line of get_agentforce_session: a pre-warm task
\* runs that function only, a "send" thread runs send_to_agentforce
StartThread(kind) ==
    [pc |-> "s_check", kind |-> kind, ret |-> "none", session_id |-> NONE,
     obj |-> NONE, seq |-> NONE, token |-> NONE]

\* where the caller of get_agentforce_session goes on
AfterSession(kind) == IF kind = "send" THEN "q_read" ELSE "done"

\* a request on the wire
Wire(op, i, ok, id, seq, obj) ==
    [op |-> op, thread |-> i, ok |-> ok, id |-> id, seq |-> seq, obj |-> obj]

RaceInit ==
    /\ ChunkIdle /\ HandlerIdle /\ AudioIdle /\ DownloadIdle /\ PureIdle
    /\ now = RaceNow
    /\ ticks = 0 /\ calls = 0
    /\ last_call = [op |-> "none"]
    /\ last_grant = NoGrant
    /\ seq_log = <<>>
    /\ issued = 2
    /\ \E s0, t0 \in {"none", "expired", "valid"} :
        /\ sessions = [s \in Senders |-> RaceSessions[s0]]
        /\ token_cache = RaceTokens[t0]
        /\ wire = [log |-> <<>>, session0 |-> s0, token0 |-> t0]
    /\ th \in [Threads -> {StartThread("send"), StartThread("prewarm")}]

RaceUnchanged ==
    UNCHANGED <<now, ticks, calls, last_call, last_grant, seq_log, chunkVars,
                handlerVars, audioVars, downloadVars, pureVars>>

\* lines 635-639: the cached session is returned, or a new one is made
R_SessionCheck(i) ==
    /\ th[i].pc = "s_check"
    /\ LET session_data == sessions[RaceSender] IN
       IF session_data # NoSession /\ SessionValid(session_data, now)
       THEN th' = [th EXCEPT ![i].session_id = session_data.session_id,
                             ![i].pc = AfterSession(th[i].kind)]
       ELSE th' = [th EXCEPT ![i].pc = "k_check", ![i].ret = "s_post"]
    /\ UNCHANGED <<sessions, token_cache, issued, wire>>
    /\ RaceUnchanged

\* lines 834-837: the cached token is returned, or a new one is fetched
R_TokenCheck(i) ==
    /\ th[i].pc = "k_check"
    /\ IF TokenCached(token_cache, now)
       THEN th' = [th EXCEPT ![i].token = token_cache.token,
                             ![i].pc = th[i].ret]
       ELSE th' = [th EXCEPT ![i].pc = "k_post"]
    /\ UNCHANGED <<sessions, token_cache, issued, wire>>
    /\ RaceUnchanged

\* lines 851-863: the grant exchange
R_TokenPost(i) ==
    /\ th[i].pc = "k_post"
    /\ \E ok \in BOOLEAN :
        IF ok
        THEN /\ issued' = issued + 1
             /\ th' = [th EXCEPT ![i].token = issued + 1, ![i].pc = "k_store"]
             /\ wire' = [wire EXCEPT !.log =
                    Append(@, Wire("grant", i, TRUE, issued + 1, NONE, NONE))]
        ELSE /\ issued' = issued
             /\ th' = [th EXCEPT ![i].pc = "raised"]
             /\ wire' = [wire EXCEPT !.log =
                    Append(@, Wire("grant", i, FALSE, NONE, NONE, NONE))]
    /\ UNCHANGED <<sessions, token_cache>>
    /\ RaceUnchanged

\* lines 866-872: the new token is cached and returned
R_TokenStore(i) ==
    /\ th[i].pc = "k_store"
    /\ token_cache' = [token |-> th[i].token,
                       expires_at |-> TokenExpiry(now, DEFAULT_EXPIRES_IN)]
    /\ th' = [th EXCEPT ![i].pc = th[i].ret]
    /\ UNCHANGED <<sessions, issued, wire>>
    /\ RaceUnchanged

\* lines 666-685: the session-creation request
R_SessionPost(i) ==
    /\ th[i].pc = "s_post"
    /\ \E ok \in BOOLEAN :
        IF ok
        THEN /\ issued' = issued + 1
             /\ th' = [th EXCEPT ![i].session_id = issued + 1,
                                 ![i].pc = "s_store"]
             /\ wire' = [wire EXCEPT !.log =
                    Append(@, Wire("create", i, TRUE, issued + 1, NONE, NONE))]
        ELSE /\ issued' = issued
             /\ th' = [th EXCEPT ![i].pc = "raised"]
             /\ wire' = [wire EXCEPT !.log =
                    Append(@, Wire("create", i, FALSE, NONE, NONE, NONE))]
    /\ UNCHANGED <<sessions, token_cache>>
    /\ RaceUnchanged

\* lines 688-695: the new session is stored and its id returned
R_SessionStore(i) ==
    /\ th[i].pc = "s_store"
    /\ sessions' = [sessions EXCEPT ![RaceSender] =
                        NewSession(@, th[i].session_id, now)]
    /\ th' = [th EXCEPT ![i].pc = AfterSession(th[i].kind)]
    /\ UNCHANGED <<token_cache, issued, wire>>
    /\ RaceUnchanged

\* lines 704-705: the sender's dict is fetched and its counter read
R_SeqRead(i) ==
    /\ th[i].pc = "q_read"
    /\ th' = [th EXCEPT ![i].obj = sessions[RaceSender].session_id,
                        ![i].seq = NextSequenceId(sessions[RaceSender]),
                        ![i].pc = "q_write"]
    /\ UNCHANGED <<sessions, token_cache, issued, wire>>
    /\ RaceUnchanged

\* line 706: the counter is written into the dict fetched at line 704, which
\* is the sender's entry unless another thread has stored a new dict since
R_SeqWrite(i) ==
    /\ th[i].pc = "q_write"
    /\ sessions' = IF sessions[RaceSender].session_id = th[i].obj
                   THEN [sessions EXCEPT ![RaceSender].sequence_id = th[i].seq]
                   ELSE sessions
    /\ th' = [th EXCEPT ![i].pc = "k_check", ![i].ret = "m_post"]
    /\ UNCHANGED <<token_cache, issued, wire>>
    /\ RaceUnchanged

\* lines 712-730: the message is posted to the session obtained at line 701
R_MessagePost(i) ==
    /\ th[i].pc = "m_post"
    /\ wire' = [wire EXCEPT !.log =
            Append(@, Wire("message", i, TRUE, th[i].session_id, th[i].seq,
                           th[i].obj))]
    /\ th' = [th EXCEPT ![i].pc = "done"]
    /\ UNCHANGED <<sessions, token_cache, issued>>
    /\ RaceUnchanged

RaceNext ==
    \E i \in Threads :
        \/ R_SessionCheck(i)
        \/ R_TokenCheck(i)
        \/ R_TokenPost(i)
        \/ R_TokenStore(i)
        \/ R_SessionPost(i)
        \/ R_SessionStore(i)
        \/ R_SeqRead(i)
        \/ R_SeqWrite(i)
        \/ R_MessagePost(i)

SpecRace == RaceInit /\ [][RaceNext]_vars

\* the requests of one kind that succeeded
WireOk(op) ==
    {k \in DOMAIN wire.log : wire.log[k].op = op /\ wire.log[k].ok}

\* C22: no two messages posted to one session carry the same sequenceId, and
\* the sequenceId of a message comes from the counter of the session the
\* message is posted to.
C22_SequenceIdsUnique ==
    /\ \A j, k \in WireOk("message") :
        (j # k /\ wire.log[j].id = wire.log[k].id)
            => wire.log[j].seq # wire.log[k].seq
    /\ \A k \in WireOk("message") : wire.log[k].obj = wire.log[k].id

\* C23: with no valid session cached at the start, at most one session is
\* created, and all the threads obtain the same session id.
C23_OneSessionCreated ==
    /\ Cardinality(WireOk("create")) <= 1
    /\ \A i, j \in Threads :
        (th[i].session_id # NONE /\ th[j].session_id # NONE)
            => th[i].session_id = th[j].session_id

\* C24: with an expired token cached at the start, one grant exchange is
\* made, and all the threads get the same token.
C24_OneGrantExchange ==
    wire.token0 = "expired" =>
        /\ Cardinality(WireOk("grant")) <= 1
        /\ \A i, j \in Threads :
            (th[i].token # NONE /\ th[j].token # NONE)
                => th[i].token = th[j].token

-----------------------------------------------------------------------------
(* Part 7: main.py serve_audio run by a request thread while a voice thread
   runs upload_audio_to_twilio and its clean-up sweep. Thread 1 serves,
   thread 2 uploads. *)

\* the request thread
Server == CHOOSE i \in Threads : \A j \in Threads : i <= j

\* the voice thread of another request
Uploader == CHOOSE i \in Threads : i # Server

\* a thread between two calls
Resting == [pc |-> "rest", id |-> NONE, to_delete |-> {}]

AudioRaceInit ==
    /\ AgentIdle /\ ChunkIdle /\ HandlerIdle /\ DownloadIdle /\ PureIdle
    /\ a_store = "main"
    /\ api_key = NONE
    /\ a_now = 0
    /\ audio_cache = [i \in AudioIds |-> NoAudio]
    /\ a_next = 0
    /\ a_log = [i \in AudioIds |-> NoAudio]
    /\ a_last = [op |-> "none"]
    /\ a_steps = 0
    /\ th = [i \in Threads |-> Resting]
    /\ wire = <<>>

AudioRaceUnchanged ==
    UNCHANGED <<a_store, api_key, wire, chunkVars, agentVars, handlerVars,
                downloadVars, pureVars>>

AR_Tick ==
    /\ a_steps < MaxAudioSteps
    /\ \E d \in AudioClockSteps(a_store) : a_now' = a_now + d
    /\ a_steps' = a_steps + 1
    /\ UNCHANGED <<audio_cache, a_next, a_log, a_last, th>>
    /\ AudioRaceUnchanged

\* line 103: if audio_id not in audio_cache
G_Check ==
    /\ th[Server].pc = "rest"
    /\ a_steps < MaxAudioSteps
    /\ \E audio_id \in AudioIds :
        IF audio_cache[audio_id] = NoAudio
        THEN /\ a_last' = [op |-> "get", id |-> audio_id, at |-> a_now,
                           status |-> 404, body |-> NONE, raised |-> FALSE]
             /\ th' = th
        ELSE /\ a_last' = a_last
             /\ th' = [th EXCEPT ![Server] = [pc |-> "g_read",
                            id |-> audio_id, to_delete |-> {}]]
    /\ a_steps' = a_steps + 1
    /\ UNCHANGED <<a_now, audio_cache, a_next, a_log>>
    /\ AudioRaceUnchanged

\* lines 106-116: audio_cache[audio_id], a KeyError when the key has gone
G_Read ==
    /\ th[Server].pc = "g_read"
    /\ LET audio_id == th[Server].id IN
       a_last' = IF audio_cache[audio_id] = NoAudio
                 THEN [op |-> "get", id |-> audio_id, at |-> a_now,
                       status |-> 500, body |-> NONE, raised |-> TRUE]
                 ELSE [op |-> "get", id |-> audio_id, at |-> a_now,
                       status |-> 200, body |-> audio_cache[audio_id].data,
                       raised |-> FALSE]
    /\ th' = [th EXCEPT ![Server] = Resting]
    /\ UNCHANGED <<a_now, audio_cache, a_next, a_log, a_steps>>
    /\ AudioRaceUnchanged

\* lines 1122-1130: the audio is stored under a new id
U_Store ==
    /\ th[Uploader].pc = "rest"
    /\ a_next < MaxUploads
    /\ \E audio_data \in AudioData :
        LET audio_id == a_next + 1 IN
        /\ audio_cache' = [audio_cache EXCEPT ![audio_id] =
                              [data |-> audio_data, timestamp |-> a_now]]
        /\ a_log' = [a_log EXCEPT ![audio_id] =
                        [data |-> audio_data, timestamp |-> a_now]]
    /\ a_next' = a_next + 1
    /\ th' = [th EXCEPT ![Uploader].pc = "u_scan"]
    /\ UNCHANGED <<a_now, a_last, a_steps>>
    /\ AudioRaceUnchanged

\* lines 1166-1167: the expired keys are listed
U_Scan ==
    /\ th[Uploader].pc = "u_scan"
    /\ th' = [th EXCEPT ![Uploader].pc = "u_delete",
                        ![Uploader].to_delete =
                            {i \in AudioIds : /\ audio_cache[i] # NoAudio
                                              /\ MainExpired(audio_cache[i], a_now)}]
    /\ UNCHANGED <<a_now, audio_cache, a_next, a_log, a_last, a_steps>>
    /\ AudioRaceUnchanged

\* lines 1168-1169: the listed keys are deleted, one at a time
U_Delete ==
    /\ th[Uploader].pc = "u_delete"
    /\ th[Uploader].to_delete # {}
    /\ LET aid == CHOOSE i \in th[Uploader].to_delete :
                    \A j \in th[Uploader].to_delete : i <= j
       IN /\ audio_cache' = [audio_cache EXCEPT ![aid] = NoAudio]
          /\ th' = [th EXCEPT ![Uploader].to_delete = @ \ {aid}]
    /\ UNCHANGED <<a_now, a_next, a_log, a_last, a_steps>>
    /\ AudioRaceUnchanged

\* lines 1170-1171 and 1135-1158: the sweep ends and the URL is returned
U_Return ==
    /\ th[Uploader].pc = "u_delete"
    /\ th[Uploader].to_delete = {}
    /\ th' = [th EXCEPT ![Uploader] = Resting]
    /\ UNCHANGED <<a_now, audio_cache, a_next, a_log, a_last, a_steps>>
    /\ AudioRaceUnchanged

AudioRaceNext ==
    AR_Tick \/ G_Check \/ G_Read \/ U_Store \/ U_Scan \/ U_Delete \/ U_Return

SpecAudioRace == AudioRaceInit /\ [][AudioRaceNext]_vars

\* C25: a GET /audio/{id} that runs while audio is uploaded and swept ends
\* with 200 and the stored bytes or with 404, never with an exception.
C25_ServeNeverRaises ==
    a_last.op = "get" =>
        /\ ~a_last.raised
        /\ a_last.status \in {200, 404}
        /\ a_last.status = 200 => a_last.body = a_log[a_last.id].data

-----------------------------------------------------------------------------
(* Part 8: detect_language_from_text of main.py *)

MaxCharCount == 11

\* the characters of the texts: two letters of arabic_chars, an Arabic letter
\* that arabic_chars leaves out (ta marbuta), and a character that is not
\* Arabic
LangChars == {"alef", "ba", "ta_marbuta", "latin"}

\* the members of arabic_chars among them
ListedArabic == {"alef", "ba"}

\* a text, as the number of times each character occurs in it
LangTexts == [LangChars -> 0..MaxCharCount]

RECURSIVE CountIn(_, _)
\* the number of characters of the text that are in the set cs
CountIn(text, cs) ==
    IF cs = {} THEN 0
    ELSE LET c == CHOOSE x \in cs : TRUE
         IN text[c] + CountIn(text, cs \ {c})

\* len(text)
TextLen(text) == CountIn(text, LangChars)

\* set(text)
TextCharSet(text) == {c \in LangChars : text[c] > 0}

\* detect_language_from_text: len(text_chars & arabic_chars) > len(text) * 0.1,
\* with both sides multiplied by ten; the float product is never below the
\* exact one, so the comparison with an integer comes out the same
detect_language_from_text(text) ==
    IF 10 * Cardinality(TextCharSet(text) \cap ListedArabic) > TextLen(text)
    THEN "ar" ELSE "en"

LangInit ==
    /\ AgentIdle /\ ChunkIdle /\ HandlerIdle /\ AudioIdle /\ DownloadIdle
    /\ RaceIdle
    /\ p_in \in {[text |-> t] : t \in LangTexts}
    /\ p_out = NoResult

DetectLanguage ==
    /\ p_out = NoResult
    /\ p_out' = [result |-> detect_language_from_text(p_in.text)]
    /\ UNCHANGED <<p_in, chunkVars, agentVars, handlerVars, audioVars,
                   downloadVars, raceVars>>

LangNext == DetectLanguage

SpecLang == LangInit /\ [][LangNext]_vars

\* C26: detect_language_from_text answers 'ar' exactly when more than a tenth
\* of the characters of the text are Arabic letters (the letters of
\* arabic_chars).
C26_ArabicShare ==
    p_out # NoResult =>
        (p_out.result = "ar"
            <=> 10 * CountIn(p_in.text, ListedArabic) > TextLen(p_in.text))

-----------------------------------------------------------------------------
(* Part 9: the entry point of main_elevenlabs.py: handle_webhook,
   handle_text_message and handle_voice_message, which runs every step in
   the request thread *)

\* the functions that main_elevenlabs.py defines
ElevenlabsModuleNames ==
    {"serve_audio", "handle_webhook", "handle_verification",
     "handle_text_message", "handle_voice_message", "download_twilio_media",
     "elevenlabs_stt", "google_tts", "get_agentforce_session",
     "send_to_agentforce", "get_salesforce_token", "send_whatsapp_message",
     "send_whatsapp_voice_message", "upload_audio_to_twilio",
     "cleanup_old_audio"}

\* what elevenlabs_stt may come to: a transcript, results whose transcript is
\* empty, no results, results without alternatives, a status other than
\* 200, an exception of the transport
SttOutcomes ==
    {"transcript", "empty_transcript", "no_results", "no_alternatives",
     "http_error", "transport_error"}

\* detected_lang: the languageCode of the first result, 'unknown' without one
SttLanguages == Languages \cup {"unknown"}

\* str(e), word by word, for the exception of each failed step
ErrorWords(name) ==
    CASE name = "stt_empty_transcript" ->
            <<"Audio", "processed", "but", "no", "clear", "speech",
              "detected.", "Please", "speak", "louder">>
      [] name = "stt_no_results" ->
            <<"No", "speech", "detected", "in", "audio.">>
      [] name = "stt_no_alternatives" ->
            <<"No", "valid", "transcript", "found">>
      [] name \in {"stt_http_error", "stt_transport_error"} ->
            <<"Failed", "to", "call", "STT", "API:">>
      [] name = "download" ->
            <<"Failed", "to", "download", "media", "from", "Twilio:">>
      [] name = "agent" -> <<"Agentforce", "API", "returned">>
      [] OTHER -> <<"Client", "Error">>

\* str.lower(), on the words of the messages
LowerWord(w) ==
    CASE w = "Audio" -> "audio"
      [] w = "No" -> "no"
      [] w = "Please" -> "please"
      [] w = "Failed" -> "failed"
      [] w = "STT" -> "stt"
      [] w = "API:" -> "api:"
      [] w = "API" -> "api"
      [] w = "Twilio:" -> "twilio:"
      [] w = "Agentforce" -> "agentforce"
      [] w = "Client" -> "client"
      [] w = "Error" -> "error"
      [] w = "System" -> "system"
      [] w = "An" -> "an"
      [] w = "Timeout" -> "timeout"
      [] w = "Access" -> "access"
      [] OTHER -> w

Lower(words) == [k \in DOMAIN words |-> LowerWord(words[k])]

\* sub in words, for a phrase of whole words
ContainsWords(words, sub) ==
    \E k \in 0..(Len(words) - Len(sub)) :
        SubSeq(words, k + 1, k + Len(sub)) = sub

\* lines 175-178: which message the sender is sent for an exception
UserMessage(error_words) ==
    IF \/ ContainsWords(Lower(error_words), <<"no", "speech", "detected">>)
       \/ \E k \in DOMAIN error_words : error_words[k] = "totalBilledTime"
    THEN "send_guidance" ELSE "send_apology"

\* lines 161-167: the try block around the synthesis; a call of a name the
\* module does not define raises NameError, which the block catches
VoiceBlock(names, tts_ok, voice_ok) ==
    IF "elevenlabs_tts" \notin names
    THEN <<Ev("tts_name_error", FALSE, 0)>>
    ELSE IF ~tts_ok THEN <<Ev("tts", FALSE, 0)>>
    ELSE <<Ev("tts", TRUE, 0), Ev("send_voice", voice_ok, 0)>>

ElevenInit ==
    /\ AgentIdle
    /\ ChunkIdle
    /\ HandlerIdle
    /\ AuxIdle

ElevenUnchanged ==
    UNCHANGED <<prewarm, reply_chunks, chunk_i, bg, chunkVars, agentVars,
                auxVars>>

\* a statement that either completes or raises into the handler's except
ElevenStep(step, name, next, except) ==
    /\ hpc = step
    /\ \E ok \in BOOLEAN :
        /\ events' = Append(events, Ev(name, ok, 0))
        /\ hpc' = IF ok THEN next ELSE except

\* lines 69-112: handle_webhook up to the dispatch
E_Receive ==
    /\ hpc = "idle"
    /\ \E k \in RequestKinds :
        /\ req_kind' = k
        /\ hpc' = CASE k = "text"  -> "et_agent"
                    [] k = "voice" -> "e_download"
                    [] OTHER       -> "done"
        /\ response' = CASE k = "get"      -> OkResponse("handle_verification")
                         [] k = "bad_form" -> GenericErrorResponse
                         [] OTHER          -> response
    /\ UNCHANGED <<lang, events>>
    /\ ElevenUnchanged

\* line 124: send_to_agentforce(from_number, message_text)
ET_Agent ==
    /\ ElevenStep("et_agent", "agent", "et_reply", "et_except")
    /\ UNCHANGED <<req_kind, lang, response>>
    /\ ElevenUnchanged

\* line 127: send_whatsapp_message(from_number, response_text)
ET_Reply ==
    /\ ElevenStep("et_reply", "send_reply", "e_return", "et_except")
    /\ UNCHANGED <<req_kind, lang, response>>
    /\ ElevenUnchanged

\* lines 131-134: the apology, then the 500 of the handler
ET_Except ==
    /\ hpc = "et_except"
    /\ \E ok \in BOOLEAN :
        /\ events' = Append(events, Ev("send_apology", ok, 0))
        /\ response' = IF ok THEN ErrorResponse("handle_text_message")
                       ELSE GenericErrorResponse
    /\ hpc' = "done"
    /\ UNCHANGED <<req_kind, lang>>
    /\ ElevenUnchanged

\* line 142: download_twilio_media(media_url)
E_Download ==
    /\ ElevenStep("e_download", "download", "e_convert", "e_except")
    /\ UNCHANGED <<req_kind, lang, response>>
    /\ ElevenUnchanged

\* lines 231-296: the ffmpeg conversion, with the original audio as fallback
E_Convert ==
    /\ ElevenStep("e_convert", "convert", "e_stt", "e_stt")
    /\ UNCHANGED <<req_kind, lang, response>>
    /\ ElevenUnchanged

\* lines 298-366: the recognition request and the reading of its answer
E_Stt ==
    /\ hpc = "e_stt"
    /\ \E o \in SttOutcomes :
        IF o = "transcript"
        THEN /\ events' = Append(events, Ev("stt", TRUE, 0))
             /\ lang' \in SttLanguages
             /\ hpc' = "e_agent"
        ELSE /\ events' = Append(events, Ev("stt_" \o o, FALSE, 0))
             /\ lang' = lang
             /\ hpc' = "e_except"
    /\ UNCHANGED <<req_kind, response>>
    /\ ElevenUnchanged

\* line 151: send_to_agentforce(from_number, transcribed_text)
E_Agent ==
    /\ ElevenStep("e_agent", "agent", "e_reply", "e_except")
    /\ UNCHANGED <<req_kind, lang, response>>
    /\ ElevenUnchanged

\* line 156: send_whatsapp_message(from_number, response_text)
E_Reply ==
    /\ ElevenStep("e_reply", "send_reply", "e_voice", "e_except")
    /\ UNCHANGED <<req_kind, lang, response>>
    /\ ElevenUnchanged

\* lines 161-167: the synthesis and the voice message, in their own try
E_Voice ==
    /\ hpc = "e_voice"
    /\ \E tts_ok, voice_ok \in BOOLEAN :
        events' = events \o VoiceBlock(ElevenlabsModuleNames, tts_ok, voice_ok)
    /\ hpc' = "e_return"
    /\ UNCHANGED <<req_kind, lang, response>>
    /\ ElevenUnchanged

\* lines 129 and 169: Response('OK', status=200)
E_Return ==
    /\ hpc = "e_return"
    /\ response' = OkResponse(IF req_kind = "text" THEN "handle_text_message"
                              ELSE "handle_voice_message")
    /\ hpc' = "done"
    /\ UNCHANGED <<req_kind, lang, events>>
    /\ ElevenUnchanged

\* lines 171-182: the message for the sender, then the 500 of the handler
E_Except ==
    /\ hpc = "e_except"
    /\ \E ok \in BOOLEAN :
        /\ events' = Append(events,
                Ev(UserMessage(ErrorWords(events[Len(events)].e)), ok, 0))
        /\ response' = IF ok THEN ErrorResponse("handle_voice_message")
                       ELSE GenericErrorResponse
    /\ hpc' = "done"
    /\ UNCHANGED <<req_kind, lang>>
    /\ ElevenUnchanged

ElevenNext ==
    \/ E_Receive
    \/ ET_Agent \/ ET_Reply \/ ET_Except
    \/ E_Download \/ E_Convert \/ E_Stt \/ E_Agent \/ E_Reply \/ E_Voice
    \/ E_Return \/ E_Except

SpecEleven == ElevenInit /\ [][ElevenNext]_vars

\* an event with this name has been logged
Logged(name) == \E k \in DOMAIN events : events[k].e = name

\* C28: when the transcription fails because no speech was detected (an
\* empty transcript, or no results), the sender is sent the guidance
\* message, not the generic apology.
C28_NoSpeechGuidance ==
    (/\ req_kind = "voice"
     /\ hpc = "done"
     /\ (Logged("stt_empty_transcript") \/ Logged("stt_no_results")))
    => (Logged("send_guidance") /\ ~Logged("send_apology"))

\* C29: a voice request whose download, transcription, agent call and text
\* reply all succeed calls the speech synthesis before it is answered 200,
\* and sends the voice message when the synthesis succeeds.
C29_VoiceSynthesized ==
    (/\ req_kind = "voice"
     /\ hpc = "done"
     /\ Has("send_reply", TRUE))
    => /\ response = OkResponse("handle_voice_message")
       /\ Logged("tts")
       /\ Has("tts", TRUE) => Logged("send_voice")

-----------------------------------------------------------------------------
\* Part 10. The reply send_to_agentforce extracts from the answer to its POST
\* (main.py lines 733-822).  Texts are sequences of words; the empty sequence
\* is the empty string.  A fixed message of the code is the one-word sequence
\* that names it.

MaxTextLen == 1
MaxMessages == 2

\* words of a message text; " " is white space
ReplyWords == {"hi", " "}

ReplyTexts == UNION {[1..n -> ReplyWords] : n \in 0..MaxTextLen}

\* line 763
PROCESSING_MESSAGE == <<"request_is_being_processed">>
\* lines 788 and 794
SYSTEM_ERROR_MESSAGE == <<"system_error_try_again">>
\* line 790
TIMEOUT_MESSAGE == <<"connection_timed_out_try_again">>
\* line 792: the text in front of {error_msg}
ERROR_PREFIX == <<"sorry_an_error_happened:">>
\* lines 800 and 804
NO_REPLY_MESSAGE == <<"received_but_could_not_create_reply">>
\* line 808
PARSE_ERROR_MESSAGE == <<"received_but_error_processing_reply">>

\* an entry of 'errors': a string, or a value of JSON that is no string
ErrorStrings ==
    {<<>>, <<"System", "Error">>, <<"An", "error", "occurred">>,
     <<"Timeout">>, <<"Access", "denied">>}

ErrorEntries ==
    {[str |-> TRUE, words |-> w] : w \in ErrorStrings}
        \cup {[str |-> FALSE, words |-> <<>>]}

\* an entry of 'messages'; a missing 'message' is '' and a missing 'errors'
\* is [] (the defaults of .get at lines 755, 779 and 797)
ReplyMessages ==
    {[type |-> "Text", message |-> t, errors |-> <<>>] : t \in ReplyTexts}
        \cup {[type |-> "Failure", message |-> t, errors |-> e] :
                 t \in {<<>>, <<"hi">>},
                 e \in {<<>>} \cup {<<x>> : x \in ErrorEntries}}

MessageLists == UNION {[1..n -> ReplyMessages] : n \in 0..MaxMessages}

\* what response.json() gives: it raises ValueError, or gives a value that is
\* no object, or an object with its 'messages'
ReplyBodies ==
    {[json |-> "unparseable", messages |-> <<>>],
     [json |-> "not_object", messages |-> <<>>]}
        \cup {[json |-> "object", messages |-> ms] : ms \in MessageLists}

NoBody == [json |-> "unread", messages |-> <<>>]

\* the answer to the POST of line 730 and, after a 204, to the GET of line 747
ReplyInputs ==
    {[status |-> "200", body |-> b, get_status |-> "none", get_body |-> NoBody] :
         b \in ReplyBodies}
        \cup {[status |-> "204", body |-> NoBody, get_status |-> "200",
               get_body |-> b] : b \in ReplyBodies}
        \cup {[status |-> "204", body |-> NoBody, get_status |-> g,
               get_body |-> NoBody] : g \in {"404", "exception"}}
        \cup {[status |-> "500", body |-> NoBody, get_status |-> "none",
               get_body |-> NoBody]}

Returns(text) == [result |-> "return", value |-> text]
Raises(name) == [result |-> "raise", value |-> <<name>>]

\* lines 784-794: the text returned for a Failure entry
failure_text(errors) ==
    IF Len(errors) > 0
    THEN LET error_msg == errors[1] IN
         IF ~error_msg.str
         THEN Raises("AttributeError")
         ELSE IF \/ ContainsWords(Lower(error_msg.words), <<"system", "error">>)
                 \/ ContainsWords(Lower(error_msg.words), <<"error", "occurred">>)
              THEN Returns(SYSTEM_ERROR_MESSAGE)
              ELSE IF ContainsWords(Lower(error_msg.words), <<"timeout">>)
                   THEN Returns(TIMEOUT_MESSAGE)
                   ELSE Returns(ERROR_PREFIX \o error_msg.words)
    ELSE Returns(SYSTEM_ERROR_MESSAGE)

\* lines 797-801 without the test of line 798
message_text_unchecked(first_message) == Returns(first_message.message)

\* lines 797-801: the text of a normal entry, or the message that stands for
\* an empty one
message_text_or_fallback(first_message) ==
    IF first_message.message = <<>>
    THEN Returns(NO_REPLY_MESSAGE)
    ELSE Returns(first_message.message)

\* lines 745-763: the 204 path; every exception of the GET is caught
polled_text(get_status, get_body) ==
    IF /\ get_status = "200"
       /\ get_body.json = "object"
       /\ Len(get_body.messages) > 0
       /\ get_body.messages[Len(get_body.messages)].message # <<>>
    THEN Returns(get_body.messages[Len(get_body.messages)].message)
    ELSE Returns(PROCESSING_MESSAGE)

\* lines 767-808: the 200 path
parsed_text(body) ==
    CASE body.json = "unparseable" -> Returns(PARSE_ERROR_MESSAGE)
      [] body.json = "not_object" -> Raises("AttributeError")
      [] OTHER ->
            IF Len(body.messages) > 0
            THEN LET first_message == body.messages[1] IN
                 IF first_message.type = "Failure"
                 THEN failure_text(first_message.errors)
                 ELSE message_text_or_fallback(first_message)
            ELSE Returns(NO_REPLY_MESSAGE)

\* lines 733-822
response_text(answer) ==
    CASE answer.status = "204" ->
            polled_text(answer.get_status, answer.get_body)
      [] answer.status = "200" -> parsed_text(answer.body)
      [] OTHER -> Raises("Exception")

ReplyInit ==
    /\ AgentIdle /\ ChunkIdle /\ HandlerIdle /\ AudioIdle /\ DownloadIdle
    /\ RaceIdle
    /\ p_in \in ReplyInputs
    /\ p_out = NoResult

ExtractReply ==
    /\ p_out = NoResult
    /\ p_out' = response_text(p_in)
    /\ UNCHANGED <<p_in, chunkVars, agentVars, handlerVars, audioVars,
                   downloadVars, raceVars>>

ReplyNext == ExtractReply

SpecReply == ReplyInit /\ [][ReplyNext]_vars

\* C30: send_to_agentforce either raises or returns a non-empty text, for
\* every 200 and 204 answer: a text entry, a Failure entry with or without
\* errors, an empty message text, an empty messages list, an unparseable
\* body.
C30_ReplyNeverEmpty ==
    p_out.result = "return" => Len(p_out.value) > 0

\* a 200 answer whose first entry has an empty text was answered with the
\* message that stands for it
C30_Witness ==
    /\ p_out.result = "return"
    /\ p_in.status = "200"
    /\ p_in.body.json = "object"
    /\ Len(p_in.body.messages) > 0
    /\ p_in.body.messages[1].type = "Text"
    /\ p_in.body.messages[1].message = <<>>
    /\ p_out.value = NO_REPLY_MESSAGE

=============================================================================
